---------------------------- MODULE Spec2Model ----------------------------
(***************************************************************************)
(* A model of the ShareAlbum photo-listing backend: the "weighted          *)
(* strategy" listing handler (the discovery sampler), its process-wide     *)
(* signing-key cache, and the external collaborators it calls (object      *)
(* store, favorites table, secret store, CDN signer).                      *)
(*                                                                         *)
(* Strings are sequences of character codes, so that suffix tests, case    *)
(* folding, lexicographic key order, base64 and UTF-8 are computed the way *)
(* the runtime computes them.                                              *)
(***************************************************************************)
EXTENDS Integers, Sequences, FiniteSets, TLC

VARIABLES
    store,          \* object store: the set of keys in the bucket
    favs,           \* favorites table: set of <<userId, photoKey>> markers
    createdAt,      \* favorites table: the createdAt attribute of each marker
    tags,           \* tags table: set of items keyed by photoKey and userIdTag
    env,            \* the worker's environment variables (truthy / falsy)
    secret,         \* what the secret store currently holds
    unsignable,     \* resource paths for which the CDN signer throws
    cachedPrivateKey,   \* module-level cache of the listing worker
    privateKeyPromise,  \* module-level in-flight fetch of the listing worker
    pc,             \* where the current invocation of the handler stands
    req,            \* the event being handled
    loc,            \* the handler's locals
    calls,          \* the collaborator calls issued by the current invocation
    response,       \* the response of the current / last invocation
    served,         \* number of invocations started in this worker
    callers,        \* concurrent callers of getPrivateKey in the worker
    promises,       \* the fetch promises created so far, by creation order
    fetches         \* number of secret-store fetches issued so far

vars == << store, favs, createdAt, tags, env, secret, unsignable, cachedPrivateKey,
           privateKeyPromise, pc, req, loc, calls, response, served,
           callers, promises, fetches >>

-----------------------------------------------------------------------------
(* Characters and strings *)

\* The printable ASCII characters, in code order starting at code 32 (the
\* quote, backslash and backquote characters are spelled out).
Ascii ==
    << " ", "!", "dquote", "#", "$", "%", "&", "'", "(", ")", "*", "+", ",", "-", ".", "/",
       "0", "1", "2", "3", "4", "5", "6", "7", "8", "9", ":", ";", "<", "=", ">", "?",
       "@", "A", "B", "C", "D", "E", "F", "G", "H", "I", "J", "K", "L", "M", "N", "O",
       "P", "Q", "R", "S", "T", "U", "V", "W", "X", "Y", "Z", "[", "bslash", "]", "^", "_",
       "bquote", "a", "b", "c", "d", "e", "f", "g", "h", "i", "j", "k", "l", "m", "n", "o",
       "p", "q", "r", "s", "t", "u", "v", "w", "x", "y", "z", "{", "|", "}", "~" >>

\* Code of a one-character string.
Ord(c) == 31 + CHOOSE i \in 1..Len(Ascii) : Ascii[i] = c

\* A string literal, written as a tuple of one-character strings.
Str(t) == [i \in 1..Len(t) |-> Ord(t[i])]

\* JavaScript's undefined / null where a string is expected: a value that is
\* no string (no character has a negative code).
None == << -1 >>

Min(a, b) == IF a <= b THEN a ELSE b
Max(a, b) == IF a >= b THEN a ELSE b

\* String.prototype.endsWith
EndsWith(s, suf) ==
    /\ Len(s) >= Len(suf)
    /\ SubSeq(s, Len(s) - Len(suf) + 1, Len(s)) = suf

\* String.prototype.startsWith
StartsWith(s, pre) ==
    /\ Len(s) >= Len(pre)
    /\ SubSeq(s, 1, Len(pre)) = pre

\* String.prototype.includes
Includes(s, sub) ==
    \E i \in 1..(Len(s) - Len(sub) + 1) : SubSeq(s, i, i + Len(sub) - 1) = sub

\* String.prototype.toLowerCase (ASCII range)
ToLowerCase(s) ==
    [i \in 1..Len(s) |-> IF s[i] >= 65 /\ s[i] <= 90 THEN s[i] + 32 ELSE s[i]]

\* White space as String.prototype.trim and parseInt see it (ASCII range).
IsSpace(c) == c \in {9, 10, 11, 12, 13, 32}

RECURSIVE TrimStart(_)
TrimStart(s) ==
    IF s /= << >> /\ IsSpace(Head(s)) THEN TrimStart(Tail(s)) ELSE s

RECURSIVE TrimEnd(_)
TrimEnd(s) ==
    IF s /= << >> /\ IsSpace(s[Len(s)])
    THEN TrimEnd(SubSeq(s, 1, Len(s) - 1)) ELSE s

\* String.prototype.trim
Trim(s) == TrimEnd(TrimStart(s))

\* Binary (code unit) order of two strings: a < b.
RECURSIVE StrLess(_, _)
StrLess(a, b) ==
    IF b = << >> THEN FALSE
    ELSE IF a = << >> THEN TRUE
    ELSE IF Head(a) /= Head(b) THEN Head(a) < Head(b)
    ELSE StrLess(Tail(a), Tail(b))

\* The elements of a finite set of strings as a sequence in ascending order.
RECURSIVE SortedSeq(_)
SortedSeq(S) ==
    IF S = {} THEN << >>
    ELSE LET m == CHOOSE x \in S : \A y \in S \ {x} : StrLess(x, y)
         IN  << m >> \o SortedSeq(S \ {m})

\* The elements of a sequence, as a set.
Range(s) == {s[i] : i \in 1..Len(s)}

\* Number.prototype.toString for a non-negative integer.
RECURSIVE NumToString(_)
NumToString(n) ==
    IF n < 10 THEN << 48 + n >>
    ELSE NumToString(n \div 10) \o << 48 + (n % 10) >>

-----------------------------------------------------------------------------
(* parseInt, base64 and UTF-8, as the runtime computes them *)

IsDigit(c) == c >= 48 /\ c <= 57

\* The longest prefix of s made of decimal digits.
RECURSIVE DigitPrefix(_)
DigitPrefix(s) ==
    IF s /= << >> /\ IsDigit(Head(s))
    THEN << Head(s) >> \o DigitPrefix(Tail(s)) ELSE << >>

\* The number a sequence of decimal digits denotes.
RECURSIVE DigitsValue(_)
DigitsValue(d) ==
    IF d = << >> THEN 0
    ELSE 10 * DigitsValue(SubSeq(d, 1, Len(d) - 1)) + (d[Len(d)] - 48)

\* parseInt(x) for a query-string value x (a string without a radix prefix,
\* or undefined): skip leading white space, take an optional sign, then the
\* longest run of decimal digits; NaN when there is none.
ParseInt(x) ==
    IF x = None THEN [nan |-> TRUE, val |-> 0]
    ELSE LET t      == TrimStart(x)
             signed == t /= << >> /\ Head(t) \in {43, 45}
             body   == IF signed THEN Tail(t) ELSE t
             digits == DigitPrefix(body)
         IN  IF digits = << >> THEN [nan |-> TRUE, val |-> 0]
             ELSE [nan |-> FALSE,
                   val |-> IF signed /\ Head(t) = 45
                           THEN 0 - DigitsValue(digits)
                           ELSE DigitsValue(digits)]

\* The character of a base64 sextet.
B64Char(v) ==
    IF v < 26 THEN 65 + v
    ELSE IF v < 52 THEN 97 + (v - 26)
    ELSE IF v < 62 THEN 48 + (v - 52)
    ELSE IF v = 62 THEN 43 ELSE 47

\* The sextet of a character, -1 for a character outside the alphabet (the
\* decoder takes the URL-safe '-' and '_' as well).
B64Value(c) ==
    IF c >= 65 /\ c <= 90 THEN c - 65
    ELSE IF c >= 97 /\ c <= 122 THEN c - 97 + 26
    ELSE IF c >= 48 /\ c <= 57 THEN c - 48 + 52
    ELSE IF c \in {43, 45} THEN 62
    ELSE IF c \in {47, 95} THEN 63
    ELSE 0 - 1

\* buf.toString('base64'): three bytes make four characters, '=' pads.
RECURSIVE Base64Encode(_)
Base64Encode(b) ==
    IF b = << >> THEN << >>
    ELSE IF Len(b) = 1 THEN
        << B64Char(b[1] \div 4), B64Char((b[1] % 4) * 16), 61, 61 >>
    ELSE IF Len(b) = 2 THEN
        << B64Char(b[1] \div 4),
           B64Char((b[1] % 4) * 16 + (b[2] \div 16)),
           B64Char((b[2] % 16) * 4), 61 >>
    ELSE
        << B64Char(b[1] \div 4),
           B64Char((b[1] % 4) * 16 + (b[2] \div 16)),
           B64Char((b[2] % 16) * 4 + (b[3] \div 64)),
           B64Char(b[3] % 64) >> \o Base64Encode(SubSeq(b, 4, Len(b)))

\* The sextets the decoder reads: characters outside the alphabet are
\* skipped, the first '=' ends the input.
RECURSIVE Sextets(_)
Sextets(s) ==
    IF s = << >> \/ Head(s) = 61 THEN << >>
    ELSE IF B64Value(Head(s)) < 0 THEN Sextets(Tail(s))
    ELSE << B64Value(Head(s)) >> \o Sextets(Tail(s))

\* A decoder that keeps whole groups of four sextets only.
RECURSIVE PackSextetsWholeGroups(_)
PackSextetsWholeGroups(x) ==
    IF Len(x) < 4 THEN << >>
    ELSE << x[1] * 4 + (x[2] \div 16),
            (x[2] % 16) * 16 + (x[3] \div 4),
            (x[3] % 4) * 64 + x[4] >> \o PackSextetsWholeGroups(SubSeq(x, 5, Len(x)))

\* Four sextets make three bytes; a trailing group of three makes two bytes,
\* of two makes one, and a lone sextet is dropped.
RECURSIVE PackSextets(_)
PackSextets(x) ==
    IF Len(x) < 2 THEN << >>
    ELSE IF Len(x) = 2 THEN << x[1] * 4 + (x[2] \div 16) >>
    ELSE IF Len(x) = 3 THEN
        << x[1] * 4 + (x[2] \div 16), (x[2] % 16) * 16 + (x[3] \div 4) >>
    ELSE
        << x[1] * 4 + (x[2] \div 16),
           (x[2] % 16) * 16 + (x[3] \div 4),
           (x[3] % 4) * 64 + x[4] >> \o PackSextets(SubSeq(x, 5, Len(x)))

\* Buffer.from(s, 'base64'): never throws.
Base64Decode(s) == PackSextets(Sextets(s))

\* Buffer.from(s, 'utf-8') for a string of code points below 0x10000.
RECURSIVE Utf8Encode(_)
Utf8Encode(s) ==
    IF s = << >> THEN << >>
    ELSE LET c == Head(s)
         IN  (IF c < 128 THEN << c >>
              ELSE IF c < 2048 THEN << 192 + (c \div 64), 128 + (c % 64) >>
              ELSE << 224 + (c \div 4096), 128 + ((c \div 64) % 64), 128 + (c % 64) >>)
             \o Utf8Encode(Tail(s))

\* buf.toString('utf-8') for bytes below 0xE0: an ASCII byte is itself, a
\* two-byte sequence is its code point, any other byte becomes U+FFFD.
RECURSIVE Utf8Decode(_)
Utf8Decode(b) ==
    IF b = << >> THEN << >>
    ELSE IF b[1] < 128 THEN << b[1] >> \o Utf8Decode(Tail(b))
    ELSE IF /\ b[1] >= 194 /\ b[1] <= 223
            /\ Len(b) >= 2 /\ b[2] >= 128 /\ b[2] <= 191
         THEN << (b[1] - 192) * 64 + (b[2] - 128) >>
              \o Utf8Decode(SubSeq(b, 3, Len(b)))
    ELSE << 65533 >> \o Utf8Decode(Tail(b))

\* The transport encoding of a continuation token placed in a response.
EncodeToken(token) == Base64Encode(Utf8Encode(token))

\* The decoding of the nextToken query parameter: it cannot throw.
DecodeToken(nextToken) == Utf8Decode(Base64Decode(nextToken))

-----------------------------------------------------------------------------
(* The external collaborators *)

\* The keys the model's object stores and favorite markers are drawn from.
K0jpg  == Str(<< "0", ".", "j", "p", "g" >>)
KAvar  == Str(<< "a", "_", "a", ".", "j", "p", "g" >>)
KCtxt  == Str(<< "c", ".", "t", "x", "t" >>)
K1gif  == Str(<< "1", "z", ".", "g", "i", "f" >>)
KZpng  == Str(<< "z", ".", "P", "N", "G" >>)
KGone1 == Str(<< "g", "1", ".", "j", "p", "g" >>)
KGone2 == Str(<< "g", "2", ".", "j", "p", "g" >>)
KGone3 == Str(<< "g", "3", ".", "j", "p", "g" >>)
KGone4 == Str(<< "g", "4", ".", "j", "p", "g" >>)

\* A store of many objects none of which is an image: p0 .. p9, pa, ...
Plain(n) == {<< 112, IF i < 10 THEN 48 + i ELSE 87 + i >> : i \in 0..(n - 1)}

\* Every key of the model.
AllKeys ==
    {K0jpg, K1gif, KAvar, KCtxt, KZpng, KGone1, KGone2, KGone3,
     KGone4} \cup Plain(16)

\* The continuation token the store issues for "resume after key k". The
\* store's tokens are opaque to the handler; the model's are "1" followed by k.
StoreToken(k) == << 49 >> \o k

\* The store accepts the continuation tokens it can issue and no other.
ValidToken(t) == \E k \in AllKeys : t = StoreToken(k)

\* The answer of a store that rejects the request or is unavailable.
ListFailed ==
    [ok |-> FALSE, Contents |-> << >>, IsTruncated |-> FALSE,
     NextContinuationToken |-> None]

\* ListObjectsV2 on a bucket holding the keys `bucket`: the keys after the
\* resume point in binary order, at most MaxKeys (and at most 1000) of them;
\* IsTruncated and NextContinuationToken when keys remain.  The store rejects
\* a negative MaxKeys and a continuation token it did not issue.
ListObjectsV2(bucket, params) ==
    IF \/ params.MaxKeys < 0
       \/ params.ContinuationToken /= None /\ ~ValidToken(params.ContinuationToken)
    THEN ListFailed
    ELSE LET after == IF params.ContinuationToken /= None
                      THEN Tail(params.ContinuationToken)
                      ELSE params.StartAfter
             rest  == SortedSeq({k \in bucket : after = None \/ StrLess(after, k)})
             n     == Min(Min(params.MaxKeys, 1000), Len(rest))
             more  == n > 0 /\ n < Len(rest)
         IN  [ok |-> TRUE,
              Contents |-> SubSeq(rest, 1, n),
              IsTruncated |-> more,
              NextContinuationToken |-> IF more THEN StoreToken(rest[n]) ELSE None]

\* Query on the favorites table (partition key userId, sort key photoKey):
\* the photo keys of the user's markers, in sort-key order.
QueryFavoritesOf(table, userId) ==
    SortedSeq({m[2] : m \in {x \in table : x[1] = userId}})

\* Scan of the favorites table, reduced as the handler reduces it: the
\* number of markers per photo key (a Map: only keys with a marker are in it).
CountFavorites(table) ==
    [k \in {m[2] : m \in table} |-> Cardinality({m \in table : m[2] = k})]

\* favoriteCounts.get(key) || 0
CountOf(favoriteCounts, key) ==
    IF key \in DOMAIN favoriteCounts THEN favoriteCounts[key] ELSE 0

\* Private keys: a PEM as stored in the secret (with a literal backslash-n),
\* a second PEM, and the text the secret holds before it is populated.
PemStored1  == << 80, 92, 110, 49 >>
PemStored2  == << 80, 92, 110, 50 >>
Placeholder == Str(<< "T", "O", "D", "O" >>)

\* rawPrivateKey.replace(/\\n/g, '\n')
RECURSIVE Unescape(_)
Unescape(s) ==
    IF s = << >> THEN << >>
    ELSE IF Len(s) >= 2 /\ s[1] = 92 /\ s[2] = 110
         THEN << 10 >> \o Unescape(SubSeq(s, 3, Len(s)))
    ELSE << Head(s) >> \o Unescape(Tail(s))

\* What the secret store may hold: SecretString is JSON with the fields
\* privateKey and placeholder (None: field absent), or is no JSON at all.
Secrets ==
    { [json |-> TRUE,  privateKey |-> PemStored1, placeholder |-> None],
      [json |-> TRUE,  privateKey |-> PemStored2, placeholder |-> None],
      [json |-> TRUE,  privateKey |-> None,       placeholder |-> Placeholder],
      [json |-> TRUE,  privateKey |-> << >>,      placeholder |-> None],
      [json |-> FALSE, privateKey |-> None,       placeholder |-> None] }

\* The signer can sign with a PEM key only.
ValidPem(key) == key \in {Unescape(PemStored1), Unescape(PemStored2)}

\* A JavaScript string (or undefined) is truthy when it is a non-empty string.
Truthy(x) == x /= None /\ x /= << >>

-----------------------------------------------------------------------------
(* The signing-key cache: getPrivateKey *)

\* privateKeyPromise = null
NoPromise == 0

\* What the body of the fetch promise computes once the secret store has
\* answered (`up`: the call succeeded) with the secret `sec`.
FetchOutcome(sec, up) ==
    IF ~up \/ ~sec.json THEN [ok |-> FALSE, key |-> << >>]
    ELSE LET rawPrivateKey == IF Truthy(sec.privateKey)
                              THEN sec.privateKey ELSE sec.placeholder
         IN  IF ~Truthy(rawPrivateKey) THEN [ok |-> FALSE, key |-> << >>]
             ELSE [ok |-> TRUE, key |-> Unescape(rawPrivateKey)]

\* A promise once settled with a fetch outcome.
Settled(outcome) ==
    [state |-> IF outcome.ok THEN "resolved" ELSE "rejected", key |-> outcome.key]

PendingPromise == [state |-> "pending", key |-> << >>]

\* A getPrivateKey that does not look for a fetch in flight.
GetPrivateKeyStepNoJoin(cached, promise, secretName) ==
    IF Truthy(cached) THEN "cached"
    ELSE IF ~secretName THEN "throw"
    ELSE "fetch"

\* A getPrivateKey that looks neither at the cache nor for a fetch in flight.
GetPrivateKeyStepUncached(cached, promise, secretName) ==
    IF ~secretName THEN "throw" ELSE "fetch"

\* The synchronous part of getPrivateKey: return the cached key, or await
\* the promise in flight, or throw for want of a secret name, or create the
\* fetch promise.
GetPrivateKeyStep(cached, promise, secretName) ==
    IF Truthy(cached) THEN "cached"
    ELSE IF promise /= NoPromise THEN "join"
    ELSE IF ~secretName THEN "throw"
    ELSE "fetch"

\* A fetch promise whose catch block leaves privateKeyPromise as it is.
PromiseAfterKept(outcome, promise) == promise

\* privateKeyPromise once the fetch promise `promise` has settled: the catch
\* block of the promise resets it, a successful fetch leaves it in place.
PromiseAfter(outcome, promise) ==
    IF outcome.ok THEN promise ELSE NoPromise

\* getSignedUrl of the CDN signer: it throws for a key that is no PEM, and
\* for the resource paths the environment makes unsignable.
GetSignedUrl(path, privateKey, bad) ==
    IF ValidPem(privateKey) /\ path \notin bad
    THEN [ok |-> TRUE,  path |-> path, key |-> privateKey]
    ELSE [ok |-> FALSE, path |-> path, key |-> << >>]

\* getCloudFrontSignedUrl(resourcePath) once the key is cached: it throws
\* when the domain or the key-pair id is not configured, strips a leading
\* slash, and signs with the key getPrivateKey returns (the cached one).
GetCloudFrontSignedUrl(resourcePath, e, cached, bad) ==
    IF ~e.CLOUDFRONT_DOMAIN \/ ~e.CLOUDFRONT_KEY_PAIR_ID
    THEN [ok |-> FALSE, path |-> resourcePath, key |-> << >>]
    ELSE LET path == IF StartsWith(resourcePath, << 47 >>)
                     THEN Tail(resourcePath) ELSE resourcePath
         IN  GetSignedUrl(path, cached, bad)

-----------------------------------------------------------------------------
(* Array.prototype.sort with the handler's comparator *)

\* A comparator that lacks the rule for "only b is a favorite".
CompareOutcomesOneSided(a, b) ==
    IF a.isFavorite /\ ~b.isFavorite THEN {0 - 1} ELSE {0 - 1, 1}

\* The comparator's possible results for (a, b), by sign: -1 when only a is
\* a favorite, 1 when only b is, and otherwise Math.random() - 0.5, which is
\* negative or not.
CompareOutcomes(a, b) ==
    IF a.isFavorite /\ ~b.isFavorite THEN {0 - 1}
    ELSE IF ~a.isFavorite /\ b.isFavorite THEN {1}
    ELSE {0 - 1, 1}

\* The sequence w with its first n elements reversed.
ReversePrefix(w, n) ==
    [i \in 1..Len(w) |-> IF i <= n THEN w[n + 1 - i] ELSE w[i]]

\* The lengths the initial run can have: the run is extended while the order
\* of each element against its predecessor agrees with the run's direction.
RECURSIVE RunLengths(_, _, _)
RunLengths(w, descending, idx) ==
    IF idx > Len(w) THEN {idx - 1}
    ELSE UNION { IF (descending /\ order >= 0) \/ (~descending /\ order < 0)
                 THEN {idx - 1}
                 ELSE RunLengths(w, descending, idx + 1)
                 : order \in CompareOutcomes(w[idx], w[idx - 1]) }

\* The runtime's run detection on an array of two or more elements: the
\* initial run, reversed in place when descending, and its length.
CountAndMakeRun(w) ==
    UNION { LET descending == order < 0
            IN  { [w   |-> IF descending THEN ReversePrefix(w, n) ELSE w,
                   run |-> n] : n \in RunLengths(w, descending, 3) }
            : order \in CompareOutcomes(w[2], w[1]) }

\* The positions a binary search for the pivot in w[left .. right-1] can end at.
RECURSIVE InsertPositions(_, _, _, _)
InsertPositions(w, pivot, left, right) ==
    IF left >= right THEN {left}
    ELSE LET mid == left + ((right - left) \div 2)
         IN  UNION { IF order < 0
                     THEN InsertPositions(w, pivot, left, mid)
                     ELSE InsertPositions(w, pivot, mid + 1, right)
                     : order \in CompareOutcomes(pivot, w[mid]) }

\* w with the element at index from moved to index to (to <= from).
MoveTo(w, from, to) ==
    [i \in 1..Len(w) |-> IF i < to \/ i > from THEN w[i]
                         ELSE IF i = to THEN w[from] ELSE w[i - 1]]

\* Binary insertion of w[start], w[start+1], ... into the sorted prefix.
RECURSIVE BinaryInsertionSort(_, _)
BinaryInsertionSort(w, start) ==
    IF start > Len(w) THEN {w}
    ELSE UNION { BinaryInsertionSort(MoveTo(w, start, p), start + 1)
                 : p \in InsertPositions(w, w[start], 1, start) }

\* A sort that leaves the photos in their order.
SortPhotosUnsorted(photos) == {photos}

\* photos.sort(comparator): every array the runtime's sort (run detection,
\* then binary insertion; arrays shorter than 64) can produce, over all the
\* outcomes of the randomized comparator.
SortPhotos(photos) ==
    IF Len(photos) < 2 THEN {photos}
    ELSE UNION { BinaryInsertionSort(r.w, r.run + 1) : r \in CountAndMakeRun(photos) }

\* Array.prototype.slice(0, end)
Slice0(s, end) ==
    LET n == IF end < 0 THEN Max(Len(s) + end, 0) ELSE Min(end, Len(s))
    IN  SubSeq(s, 1, n)

-----------------------------------------------------------------------------
(* The discovery sampler: generateRandomStartKey *)

\* The folder patterns the sampler knows of.
years ==
    << 1962, 1976, 1980, 1987, 1988, 1989, 1990, 1991, 1992, 1993, 1994,
       1995, 1996, 1997, 1998, 1999, 2000, 2001, 2002, 2003, 2004, 2005,
       2006, 2007, 2008, 2009, 2010, 2011, 2015, 2025 >>

months ==
    << Str(<< "J", "a", "n", "u", "a", "r", "y" >>),
       Str(<< "F", "e", "b", "r", "u", "a", "r", "y" >>),
       Str(<< "M", "a", "r", "c", "h" >>),
       Str(<< "A", "p", "r", "i", "l" >>),
       Str(<< "M", "a", "y" >>),
       Str(<< "J", "u", "n", "e" >>),
       Str(<< "J", "u", "l", "y" >>),
       Str(<< "A", "u", "g", "u", "s", "t" >>),
       Str(<< "S", "e", "p", "t", "e", "m", "b", "e", "r" >>),
       Str(<< "O", "c", "t", "o", "b", "e", "r" >>),
       Str(<< "N", "o", "v", "e", "m", "b", "e", "r" >>),
       Str(<< "D", "e", "c", "e", "m", "b", "e", "r" >>) >>

memoryFolders ==
    << Str(<< "o", "l", "d", "e", "r", "_", "d", "u", "n", "c", "a", "n", "_", "m", "e", "m", "o", "r", "i", "e", "s" >>),
       Str(<< "o", "l", "d", "e", "r", "_", "s", "h", "e", "r", "m", "a", "n", "_", "m", "e", "m", "o", "r", "i", "e", "s" >>),
       Str(<< "e", "a", "r", "l", "y", "_", "d", "u", "n", "c", "a", "n", "_", "m", "e", "m", "o", "r", "i", "e", "s" >>),
       Str(<< "h", "u", "n", "t", "i", "n", "g", "_", "m", "e", "m", "o", "r", "i", "e", "s" >>),
       Str(<< "j", "u", "l", "i", "a", "_", "m", "e", "m", "o", "r", "i", "e", "s" >>) >>

specialFolders ==
    << Str(<< "C", "h", "r", "i", "s", "t", "m", "a", "s", "_", "C", "a", "r", "d", "s" >>),
       Str(<< "M", "i", "s", "c" >>),
       Str(<< "C", "D", "s" >>),
       Str(<< "i", "P", "h", "o", "n", "e", "s" >>) >>

chars ==
    Str(<< "1", "2", "3", "4", "5", "6", "7", "8", "9", "a", "b", "c", "d", "e",
           "f", "g", "h", "i", "j", "k", "l", "m", "n", "o", "p", "q", "r", "s",
           "t", "u", "v", "w", "x", "y", "z" >>)

\* The first n entries of a table (all of them when it has fewer).
FirstOf(table, n) == {table[i] : i \in 1..Min(n, Len(table))}

\* The values generateRandomStartKey can return when each random index falls
\* among the first n entries of its table: null (start from the beginning),
\* a YYYY_Month folder, a memory folder, a special folder, a year, or a
\* single character.
StartKeys(n) ==
    {None}
    \cup {NumToString(y) \o << 95 >> \o m : y \in FirstOf(years, n), m \in FirstOf(months, n)}
    \cup FirstOf(memoryFolders, n)
    \cup FirstOf(specialFolders, n)
    \cup {NumToString(y) : y \in FirstOf(years, n)}
    \cup {<< c >> : c \in FirstOf(chars, n)}

\* Every value generateRandomStartKey can return.
GenerateRandomStartKey == StartKeys(Len(chars))

-----------------------------------------------------------------------------
(* Bounds of the model *)

\* Requests of the clients' own making one worker handles in a behaviour.
MaxRequests == 1

\* Requests for a next page that follow them.
MaxFollow == 1

\* The random indices of the sampler fall among the first MaxPick entries of
\* each of its tables.
MaxPick == 1

\* Number of objects of the large store without images.
PlainCount == 11

\* Concurrent callers of getPrivateKey.
MaxCallers == 3

-----------------------------------------------------------------------------
(* The listing handler *)

\* No authenticated identity: claims.sub is undefined.
NoUser == ""

NoParams == [MaxKeys |-> 0, StartAfter |-> None, ContinuationToken |-> None]

NoPagination == [limit |-> 0, count |-> 0, hasMore |-> FALSE, nextToken |-> None]

NoResponse ==
    [statusCode |-> 0, photos |-> << >>, pagination |-> NoPagination, error |-> "",
     allowOrigin |-> None]

\* The origins the handlers echo, and the one they fall back to.
OriginLocal   == Str(<< "h", "t", "t", "p", ":", "/", "/", "l", "o", "c", "a", "l", "h", "o", "s", "t", ":", "5", "1", "7", "3" >>)
OriginNetlify == Str(<< "h", "t", "t", "p", "s", ":", "/", "/", "a", "l", "b", "u", "m", "s", "h", "a", "r", "e", "s", "d", "d", ".", "n", "e", "t", "l", "i", "f", "y", ".", "a", "p", "p" >>)
allowedOrigins == {OriginLocal, OriginNetlify}

\* The headers of an event that has no Origin header.
NoHeaders == [origin |-> None, Origin |-> None]

\* An origin choice that reads the lower-case header name only.
CorsOriginLowerCaseOnly(headers) ==
    IF headers.origin \in allowedOrigins THEN headers.origin ELSE OriginLocal

\* event.headers?.origin || event.headers?.Origin, echoed when it is in the
\* allow-list, else the default origin.
CorsOrigin(headers) ==
    LET origin == IF Truthy(headers.origin) THEN headers.origin ELSE headers.Origin
    IN  IF origin \in allowedOrigins THEN origin ELSE OriginLocal

\* The locals of an invocation before the handler has assigned them.
NoLocals ==
    [limit |-> 0, listParams |-> NoParams, data |-> ListFailed,
     finalData |-> ListFailed, fallbackTried |-> FALSE,
     userFavorites |-> << >>, favoriteCounts |-> << >>, photos |-> << >>]

\* The catch block: every error becomes a 500 with the error's message.
ErrorResponse(message, headers) ==
    [statusCode |-> 500, photos |-> << >>, pagination |-> NoPagination,
     error |-> message, allowOrigin |-> CorsOrigin(headers)]

\* const limit = Math.min(parseInt(queryParams.limit) || 25, 100)
ParseLimit(raw) ==
    LET parsed == ParseInt(raw)
    IN  Min(IF parsed.nan \/ parsed.val = 0 THEN 25 ELSE parsed.val, 100)

\* A fallback condition that halves the limit in whole numbers.
FallbackNeededWholeHalf(nextToken, listParams, data, limit) ==
    /\ ~Truthy(nextToken)
    /\ listParams.StartAfter /= None
    /\ Len(data.Contents) < Min(limit \div 2, 10)

\* The fallback condition: a first page that started from a random key and
\* got fewer than Math.min(limit / 2, 10) objects (limit / 2 is not rounded).
FallbackNeeded(nextToken, listParams, data, limit) ==
    /\ ~Truthy(nextToken)
    /\ listParams.StartAfter /= None
    /\ 2 * Len(data.Contents) < limit
    /\ Len(data.Contents) < 10

\* A filter that keeps every image, alternate renditions included.
IsEligibleAnyImage(objKey) ==
    LET key == ToLowerCase(Trim(objKey))
    IN  \E suffix \in {Str(<< ".", "j", "p", "g" >>), Str(<< ".", "j", "p", "e", "g" >>),
                       Str(<< ".", "p", "n", "g" >>), Str(<< ".", "g", "i", "f" >>),
                       Str(<< ".", "w", "e", "b", "p" >>)} : EndsWith(key, suffix)

\* The filter of the listed objects: a key is kept when, trimmed and in lower
\* case, it ends in an image suffix and contains neither "_a." nor "_b.".
IsEligible(objKey) ==
    /\ objKey /= << >>
    /\ LET key == ToLowerCase(Trim(objKey))
       IN  /\ \/ EndsWith(key, Str(<< ".", "j", "p", "g" >>))
              \/ EndsWith(key, Str(<< ".", "j", "p", "e", "g" >>))
              \/ EndsWith(key, Str(<< ".", "p", "n", "g" >>))
              \/ EndsWith(key, Str(<< ".", "g", "i", "f" >>))
              \/ EndsWith(key, Str(<< ".", "w", "e", "b", "p" >>))
           /\ ~Includes(key, Str(<< "_", "a", "." >>))
           /\ ~Includes(key, Str(<< "_", "b", "." >>))

\* The record of a listed photo.
PhotoRecord(objKey, url, userFavorites, favoriteCounts) ==
    [key |-> objKey, url |-> url,
     isFavorite |-> objKey \in Range(userFavorites),
     favoriteCount |-> CountOf(favoriteCounts, objKey)]

\* The record of a backfilled favorite.
FavoriteRecord(favoriteKey, url, favoriteCounts) ==
    [key |-> favoriteKey, url |-> url, isFavorite |-> TRUE,
     favoriteCount |-> CountOf(favoriteCounts, favoriteKey)]

\* The favorites that are not among the photos, in the order of the Set.
MissingFavorites(userFavorites, photos) ==
    LET photosInResults == {photos[i].key : i \in 1..Len(photos)}
        Missing(fav)    == fav \notin photosInResults
    IN  SelectSeq(userFavorites, Missing)

\* A backfill that signs every missing favorite.
FavoritesToAddAll(missingFavorites) == missingFavorites

\* The missing favorites the handler signs: the first Math.min(3, length).
FavoritesToAdd(missingFavorites) ==
    SubSeq(missingFavorites, 1, Min(3, Len(missingFavorites)))

\* finalData.IsTruncated && finalData.NextContinuationToken
HasMore(finalData) ==
    finalData.IsTruncated /\ Truthy(finalData.NextContinuationToken)

\* The pagination block of the response.
Pagination(limit, finalPhotos, finalData) ==
    [limit |-> limit, count |-> Len(finalPhotos), hasMore |-> HasMore(finalData),
     nextToken |-> IF HasMore(finalData)
                   THEN EncodeToken(finalData.NextContinuationToken) ELSE None]

\* A response that is never trimmed.
FinalPhotosUntrimmed(nextToken, photos, limit) == photos

\* const finalPhotos = nextToken ? photos : photos.slice(0, limit)
FinalPhotos(nextToken, photos, limit) ==
    IF Truthy(nextToken) THEN photos ELSE Slice0(photos, limit)

\* Where the handler goes once the favorites are read (or skipped).
AfterFavorites ==
    IF env.CLOUDFRONT_DOMAIN /\ env.CLOUDFRONT_KEY_PAIR_ID THEN "prefetch" ELSE "sign"

\* A favorites lookup that does not ask for an identity.
AfterListingAnyone ==
    IF env.FAVORITES_TABLE THEN "query" ELSE AfterFavorites

\* Where the handler goes once finalData is settled.
AfterListing ==
    IF req.userId /= NoUser /\ env.FAVORITES_TABLE THEN "query" ELSE AfterFavorites

Fail(message) ==
    /\ response' = ErrorResponse(message, req.headers)
    /\ pc' = "done"

KeyModelUnchanged == UNCHANGED << callers >>

WorldUnchanged == UNCHANGED << store, favs, createdAt, tags, env, secret, unsignable >>

\* An invocation starts: the handler checks the bucket, parses the query,
\* builds the listing parameters (the decoded cursor, or a random start key
\* drawn from `seeks`) and sends the listing.
Receive(r, seeks) ==
    /\ served' = served + 1
    /\ req' = r
    /\ IF ~env.BUCKET
       THEN /\ response' = ErrorResponse("Bucket is not defined", r.headers)
            /\ pc' = "done"
            /\ loc' = NoLocals
            /\ calls' = << >>
       ELSE LET limit == ParseLimit(r.limit)
            IN  \E randomStartKey \in IF Truthy(r.nextToken) THEN {None} ELSE seeks :
                  LET listParams ==
                        [MaxKeys |-> limit,
                         StartAfter |-> IF Truthy(randomStartKey)
                                        THEN randomStartKey ELSE None,
                         ContinuationToken |-> IF Truthy(r.nextToken)
                                               THEN DecodeToken(r.nextToken)
                                               ELSE None]
                  IN  /\ loc' = [NoLocals EXCEPT !.limit = limit,
                                                 !.listParams = listParams]
                      /\ calls' = << [op |-> "ListObjectsV2", params |-> listParams,
                                       failed |-> FALSE] >>
                      /\ response' = NoResponse
                      /\ pc' = "list"
    /\ WorldUnchanged /\ KeyModelUnchanged
    /\ UNCHANGED << cachedPrivateKey, privateKeyPromise, promises, fetches >>

\* The listing returns (or fails: the store rejects it, or is unavailable).
List ==
    /\ pc = "list"
    /\ \E up \in BOOLEAN :
         LET data == IF up THEN ListObjectsV2(store, loc.listParams) ELSE ListFailed
         IN  /\ calls' = [calls EXCEPT ![1].failed = ~data.ok]
             /\ IF ~data.ok
                THEN /\ Fail(IF up THEN "InvalidArgument" ELSE "ServiceUnavailable")
                     /\ UNCHANGED loc
                ELSE /\ loc' = [loc EXCEPT !.data = data, !.finalData = data]
                     /\ response' = response
                     /\ pc' = IF FallbackNeeded(req.nextToken, loc.listParams, data,
                                                loc.limit)
                              THEN "fallback" ELSE AfterListing
    /\ WorldUnchanged /\ KeyModelUnchanged
    /\ UNCHANGED << req, served, cachedPrivateKey, privateKeyPromise,
                    promises, fetches >>

\* A selection that takes the objects of the fallback listing but keeps the
\* pagination metadata of the sample.
FinalDataSampleCursor(data, fallbackData) ==
    IF fallbackData.ok /\ Len(fallbackData.Contents) > Len(data.Contents)
    THEN [fallbackData EXCEPT !.IsTruncated = data.IsTruncated,
                              !.NextContinuationToken = data.NextContinuationToken]
    ELSE data

\* A finalData that adds the fallback's objects to the sample's.
FinalDataMerged(data, fallbackData) ==
    IF fallbackData.ok /\ Len(fallbackData.Contents) > Len(data.Contents)
    THEN [fallbackData EXCEPT !.Contents = data.Contents \o fallbackData.Contents]
    ELSE data

\* A finalData that takes the fallback's result whatever it is.
FinalDataAlways(data, fallbackData) == fallbackData

\* finalData after the fallback listing: the fallback's result when it has
\* more objects than the sample, else the sample.
FinalData(data, fallbackData) ==
    IF fallbackData.ok /\ Len(fallbackData.Contents) > Len(data.Contents)
    THEN fallbackData
    ELSE data

\* The fallback listing from the beginning: its result is used when it has
\* more objects than the sample; its failure is logged and ignored.
Fallback ==
    /\ pc = "fallback"
    /\ LET fallbackParams == [MaxKeys |-> loc.limit, StartAfter |-> None,
                              ContinuationToken |-> None]
       IN  \E up \in BOOLEAN :
                LET fallbackData == IF up THEN ListObjectsV2(store, fallbackParams)
                                    ELSE ListFailed
                IN  /\ calls' = Append(calls, [op |-> "ListObjectsV2",
                                               params |-> fallbackParams,
                                               failed |-> ~fallbackData.ok])
                    /\ loc' = [loc EXCEPT
                              !.fallbackTried = TRUE,
                              !.finalData = FinalData(loc.data, fallbackData)]
    /\ pc' = AfterListing
    /\ WorldUnchanged /\ KeyModelUnchanged
    /\ UNCHANGED << req, response, served, cachedPrivateKey, privateKeyPromise,
                    promises, fetches >>

\* The Query for the identity's favorites.
QueryFavorites ==
    /\ pc = "query"
    /\ \E up \in BOOLEAN :
         /\ calls' = Append(calls, [op |-> "Query", userId |-> req.userId,
                                    failed |-> ~up])
         /\ IF up
            THEN /\ loc' = [loc EXCEPT !.userFavorites = QueryFavoritesOf(favs, req.userId)]
                 /\ response' = response
                 /\ pc' = "scan"
            ELSE /\ Fail("ServiceUnavailable")
                 /\ UNCHANGED loc
    /\ WorldUnchanged /\ KeyModelUnchanged
    /\ UNCHANGED << req, served, cachedPrivateKey, privateKeyPromise,
                    promises, fetches >>

\* The Scan that counts the favorites of every photo.
ScanFavorites ==
    /\ pc = "scan"
    /\ \E up \in BOOLEAN :
         /\ calls' = Append(calls, [op |-> "Scan", failed |-> ~up])
         /\ IF up
            THEN /\ loc' = [loc EXCEPT !.favoriteCounts = CountFavorites(favs)]
                 /\ response' = response
                 /\ pc' = AfterFavorites
            ELSE /\ Fail("ServiceUnavailable")
                 /\ UNCHANGED loc
    /\ WorldUnchanged /\ KeyModelUnchanged
    /\ UNCHANGED << req, served, cachedPrivateKey, privateKeyPromise,
                    promises, fetches >>

\* await getPrivateKey() before the photos are signed: the cached key, or the
\* promise in flight, or a fetch from the secret store that fills the cache.
PrefetchKey ==
    /\ pc = "prefetch"
    /\ LET step == GetPrivateKeyStep(cachedPrivateKey, privateKeyPromise,
                                     env.CLOUDFRONT_PRIVATE_KEY_SECRET_NAME)
       IN  CASE step = "cached" ->
                  /\ pc' = "sign"
                  /\ UNCHANGED << response, calls, cachedPrivateKey,
                                  privateKeyPromise, promises, fetches >>
             [] step = "join" ->
                  /\ IF promises[privateKeyPromise].state = "resolved"
                     THEN pc' = "sign" /\ response' = response
                     ELSE Fail("Failed to retrieve CloudFront private key")
                  /\ UNCHANGED << calls, cachedPrivateKey, privateKeyPromise,
                                  promises, fetches >>
             [] step = "throw" ->
                  /\ Fail("CLOUDFRONT_PRIVATE_KEY_SECRET_NAME not configured")
                  /\ UNCHANGED << calls, cachedPrivateKey, privateKeyPromise,
                                  promises, fetches >>
             [] step = "fetch" ->
                  /\ fetches' = fetches + 1
                  /\ \E up \in BOOLEAN :
                       LET outcome == FetchOutcome(secret, up)
                       IN  /\ calls' = Append(calls, [op |-> "GetSecretValue",
                                                      failed |-> ~up])
                           /\ promises' = Append(promises, Settled(outcome))
                           /\ IF outcome.ok
                              THEN /\ cachedPrivateKey' = outcome.key
                                   /\ privateKeyPromise' = Len(promises) + 1
                                   /\ pc' = "sign"
                                   /\ response' = response
                              ELSE /\ cachedPrivateKey' = cachedPrivateKey
                                   /\ privateKeyPromise' = NoPromise
                                   /\ Fail("Failed to retrieve CloudFront private key")
    /\ WorldUnchanged /\ KeyModelUnchanged
    /\ UNCHANGED << req, loc, served >>

\* A page signing that tolerates every failure.
PageSigningFailsNever(filteredPhotos, e, cached, bad) == FALSE

\* Promise.all over the page's photos rejects when any signing throws.
PageSigningFails(filteredPhotos, e, cached, bad) ==
    \E i \in 1..Len(filteredPhotos) :
        ~GetCloudFrontSignedUrl(filteredPhotos[i], e, cached, bad).ok

\* A backfill guard that does not look at the cursor.
BackfillNeededAnyPage(nextToken, userFavorites) ==
    Len(userFavorites) > 0

\* if (!nextToken && userFavorites.size > 0)
BackfillNeeded(nextToken, userFavorites) ==
    ~Truthy(nextToken) /\ Len(userFavorites) > 0

\* The listed objects are filtered and every photo kept gets a signed URL;
\* the first signing error fails the request.
SignPage ==
    /\ pc = "sign"
    /\ LET filteredPhotos == SelectSeq(loc.finalData.Contents, IsEligible)
           configured     == env.CLOUDFRONT_DOMAIN /\ env.CLOUDFRONT_KEY_PAIR_ID
           Url(objKey)    == GetCloudFrontSignedUrl(objKey, env, cachedPrivateKey,
                                                    unsignable)
       IN  IF filteredPhotos /= << >> /\ ~configured
           THEN /\ Fail("CloudFront configuration missing")
                /\ UNCHANGED loc
           ELSE IF PageSigningFails(filteredPhotos, env, cachedPrivateKey, unsignable)
           THEN /\ Fail("Failed to generate signed URL")
                /\ UNCHANGED loc
           ELSE /\ loc' = [loc EXCEPT !.photos =
                              [i \in 1..Len(filteredPhotos) |->
                                  PhotoRecord(filteredPhotos[i], Url(filteredPhotos[i]),
                                              loc.userFavorites, loc.favoriteCounts)]]
                /\ response' = response
                /\ pc' = IF BackfillNeeded(req.nextToken, loc.userFavorites)
                         THEN "backfill" ELSE "respond"
    /\ WorldUnchanged /\ KeyModelUnchanged
    /\ UNCHANGED << req, calls, served, cachedPrivateKey, privateKeyPromise,
                    promises, fetches >>

\* First page only: a few of the identity's favorites that are not among the
\* photos are signed and put in front; one that cannot be signed is skipped.
Backfill ==
    /\ pc = "backfill"
    /\ LET missingFavorites == MissingFavorites(loc.userFavorites, loc.photos)
           toAdd            == FavoritesToAdd(missingFavorites)
           Url(favoriteKey) == GetCloudFrontSignedUrl(favoriteKey, env,
                                                      cachedPrivateKey, unsignable)
           Signed(favoriteKey) == Url(favoriteKey).ok
           validKeys        == SelectSeq(toAdd, Signed)
           validMissingFavorites ==
               [i \in 1..Len(validKeys) |->
                   FavoriteRecord(validKeys[i], Url(validKeys[i]), loc.favoriteCounts)]
       IN  loc' = [loc EXCEPT !.photos = validMissingFavorites \o loc.photos]
    /\ pc' = "respond"
    /\ WorldUnchanged /\ KeyModelUnchanged
    /\ UNCHANGED << req, calls, response, served, cachedPrivateKey,
                    privateKeyPromise, promises, fetches >>

\* The photos are sorted (favorites first, the rest at random), the first
\* page is trimmed to the limit, and the 200 response is returned.
Respond ==
    /\ pc = "respond"
    /\ \E sorted \in SortPhotos(loc.photos) :
         LET finalPhotos == FinalPhotos(req.nextToken, sorted, loc.limit)
         IN  /\ loc' = [loc EXCEPT !.photos = sorted]
             /\ response' = [statusCode |-> 200, photos |-> finalPhotos,
                             pagination |-> Pagination(loc.limit, finalPhotos,
                                                       loc.finalData),
                             error |-> "",
                             allowOrigin |-> CorsOrigin(req.headers)]
    /\ pc' = "done"
    /\ WorldUnchanged /\ KeyModelUnchanged
    /\ UNCHANGED << req, calls, served, cachedPrivateKey, privateKeyPromise,
                    promises, fetches >>

-----------------------------------------------------------------------------
(* The listing worker: environments, requests, specification *)

\* A small album: two images, an "_a." rendition, a text file and an image
\* with an upper-case suffix.
Album == {K0jpg, K1gif, KAvar, KCtxt, KZpng}

Stores == {{}, Album, Plain(PlainCount)}

\* Favorite markers: of listed keys (an alternate rendition and a text file
\* among them), and of keys that are in no store any more.
FavTables ==
    { {},
      {<< "u1", KAvar >>, << "u1", KCtxt >>, << "u2", K1gif >>},
      {<< "u1", KGone1 >>, << "u1", KGone2 >>, << "u1", KGone3 >>, << "u1", KGone4 >>,
       << "u1", KZpng >>, << "u2", KZpng >>} }

EnvNames ==
    {"BUCKET", "FAVORITES_TABLE", "CLOUDFRONT_DOMAIN", "CLOUDFRONT_KEY_PAIR_ID",
     "CLOUDFRONT_PRIVATE_KEY_SECRET_NAME"}

\* Every variable set.
FullEnv == [n \in EnvNames |-> TRUE]

PopulatedSecret == [json |-> TRUE, privateKey |-> PemStored1, placeholder |-> None]

\* The deployments: the complete one, and those that differ from it in one
\* respect (a variable unset, another secret content, an unsignable path).
Deployments ==
    {<< [FullEnv EXCEPT ![n] = FALSE], PopulatedSecret, {} >> : n \in EnvNames}
    \cup {<< FullEnv, s, {} >> : s \in Secrets}
    \cup {<< FullEnv, PopulatedSecret, {k} >> : k \in {K1gif, KGone2}}

NoRequest == [limit |-> None, nextToken |-> None, userId |-> NoUser,
              headers |-> NoHeaders]

\* The listing worker before its first invocation.
\* Date.now() when the markers present at the start were put.
FirstStamp == 1000

WorkerInit ==
    /\ cachedPrivateKey = None
    /\ privateKeyPromise = NoPromise
    /\ promises = << >>
    /\ fetches = 0
    /\ callers = << >>
    /\ pc = "idle"
    /\ req = NoRequest
    /\ loc = NoLocals
    /\ calls = << >>
    /\ response = NoResponse
    /\ served = 0
    /\ tags = {}
    /\ createdAt = [m \in favs |-> FirstStamp]

Init ==
    /\ store \in Stores
    /\ favs \in FavTables
    /\ \E d \in Deployments : env = d[1] /\ secret = d[2] /\ unsignable = d[3]
    /\ WorkerInit

\* Query-string values of limit, all in range.
Limits == {Str(<< "2" >>), Str(<< "3" >>), Str(<< "3", "0" >>)}

\* Query-string values of nextToken a client may make up: none, text that
\* is no base64, base64 of a token the store never issued, and an issued one.
ClientTokens ==
    {None, Str(<< "z", "z", "!", "z" >>), EncodeToken(Str(<< "z", "z" >>)),
     EncodeToken(StoreToken(KAvar))}

Requests == [limit : Limits, nextToken : ClientTokens, userId : {NoUser, "u1"},
             headers : {NoHeaders}]

\* A client sends a request of its own making to the idle worker.
NewRequest ==
    /\ pc = "idle"
    /\ served < MaxRequests
    /\ \E r \in Requests : Receive(r, StartKeys(MaxPick))

\* The client asks for the next page with the nextToken of the response.
FollowPage ==
    /\ pc = "done"
    /\ served < MaxRequests + MaxFollow
    /\ Truthy(response.pagination.nextToken)
    /\ \E r \in Requests :
         /\ r.nextToken = None
         /\ Receive([r EXCEPT !.nextToken = response.pagination.nextToken], {None})

\* The invocation is over: the worker is free for the next one.
Deliver ==
    /\ pc = "done"
    /\ pc' = "idle"
    /\ req' = NoRequest
    /\ loc' = NoLocals
    /\ calls' = << >>
    /\ response' = NoResponse
    /\ WorldUnchanged /\ KeyModelUnchanged
    /\ UNCHANGED << served, cachedPrivateKey, privateKeyPromise, promises, fetches >>

Handle ==
    \/ List
    \/ Fallback
    \/ QueryFavorites
    \/ ScanFavorites
    \/ PrefetchKey
    \/ SignPage
    \/ Backfill
    \/ Respond

Next == NewRequest \/ FollowPage \/ Handle \/ Deliver

Spec == Init /\ [][Next]_vars

-----------------------------------------------------------------------------
(* Properties of the listing worker *)

\* The ListObjectsV2 calls of the current invocation, in order.
IsListCall(c) == c.op = "ListObjectsV2"
ListCalls == SelectSeq(calls, IsListCall)

\* The keys of the photos of the response.
ResponseKeys == {response.photos[i].key : i \in 1..Len(response.photos)}

\* A key that, trimmed and in lower case, ends in a recognized image suffix.
HasImageSuffix(k) ==
    LET key == ToLowerCase(Trim(k))
    IN  \E suffix \in {Str(<< ".", "j", "p", "g" >>), Str(<< ".", "j", "p", "e", "g" >>),
                       Str(<< ".", "p", "n", "g" >>), Str(<< ".", "g", "i", "f" >>),
                       Str(<< ".", "w", "e", "b", "p" >>)} : EndsWith(key, suffix)

\* A key that follows the "_a." / "_b." alternate-rendition convention.
IsAlternateRendition(k) ==
    LET key == ToLowerCase(Trim(k))
    IN  Includes(key, Str(<< "_", "a", "." >>)) \/ Includes(key, Str(<< "_", "b", "." >>))

\* C1: a request whose nextToken decodes to a token the store rejects is
\* answered with status 400 (never 500).
C1_InvalidTokenIs400 ==
    ( /\ pc = "done"
      /\ Truthy(req.nextToken)
      /\ ~ValidToken(DecodeToken(req.nextToken))
      /\ response.error = "InvalidArgument" )
    => response.statusCode = 400

\* C2 as stated: on a first page, when the first listing returned fewer than
\* limit/2 objects, a second listing from the beginning has been issued by
\* the time the response is returned.
C2_FallbackBelowHalfLimit ==
    ( /\ pc = "done"
      /\ ~Truthy(req.nextToken)
      /\ loc.data.ok
      /\ 2 * Len(loc.data.Contents) < loc.limit )
    => /\ Len(ListCalls) = 2
       /\ ListCalls[2].params.StartAfter = None
       /\ ListCalls[2].params.ContinuationToken = None

\* C2 as amended: on a first page that was listed from a random start key,
\* when that listing returned fewer than min(limit/2, 10) objects, a second
\* listing from the beginning has been issued by the time the response is
\* returned.
C2_FallbackBelowThreshold ==
    ( /\ pc = "done"
      /\ ~Truthy(req.nextToken)
      /\ loc.data.ok
      /\ ListCalls[1].params.StartAfter /= None
      /\ 2 * Len(loc.data.Contents) < loc.limit
      /\ Len(loc.data.Contents) < 10 )
    => /\ Len(ListCalls) = 2
       /\ ListCalls[2].params.StartAfter = None
       /\ ListCalls[2].params.ContinuationToken = None
       /\ ListCalls[2].params.MaxKeys = loc.limit

\* C2 witness: a 200 response for which the sample of an odd limit held
\* fewer than limit/2 objects and the fallback listing replaced it.
C2_Witness ==
    /\ pc = "done"
    /\ response.statusCode = 200
    /\ ListCalls[1].params.StartAfter /= None
    /\ loc.limit = 3
    /\ Len(loc.data.Contents) = 1
    /\ Len(ListCalls) = 2
    /\ Len(loc.finalData.Contents) > Len(loc.data.Contents)

\* C3: no key without a recognized image suffix is among the photos of a
\* response.
C3_OnlyImageKeys ==
    pc = "done" => \A k \in ResponseKeys : HasImageSuffix(k)

\* C4: no key of the "_a." / "_b." alternate-rendition convention is among
\* the photos of a response.
C4_NoAlternateRenditions ==
    pc = "done" => \A k \in ResponseKeys : ~IsAlternateRendition(k)

\* C5: in every response, every favorite photo comes before every photo that
\* is no favorite, whatever the comparator's random results, also after the
\* first page is trimmed to the limit.
C5_FavoritesFirst ==
    pc = "done" =>
        \A i, j \in 1..Len(response.photos) :
            (response.photos[i].isFavorite /\ ~response.photos[j].isFavorite) => i < j

\* C5 witness: a first page that was trimmed and still holds favorites and
\* other photos.
C5_Witness ==
    /\ pc = "done"
    /\ response.statusCode = 200
    /\ Len(response.photos) < Len(loc.photos)
    /\ \E i, j \in 1..Len(response.photos) :
           response.photos[i].isFavorite /\ ~response.photos[j].isFavorite

\* The signing configuration is unavailable: a variable is missing, or the
\* secret holds no key.
SigningUnavailable ==
    \/ ~env.CLOUDFRONT_DOMAIN
    \/ ~env.CLOUDFRONT_KEY_PAIR_ID
    \/ ~env.CLOUDFRONT_PRIVATE_KEY_SECRET_NAME
    \/ ~FetchOutcome(secret, TRUE).ok

\* C8: when the signing configuration is unavailable, every request ends in
\* a 500 response.
C8_NoSigningIs500 ==
    (pc = "done" /\ SigningUnavailable) => response.statusCode = 500

\* The positions of the response's photos whose key was not in the listing
\* page used.
Spliced == {i \in 1..Len(response.photos) :
                response.photos[i].key \notin Range(loc.finalData.Contents)}

\* C9: a response holds at most 3 photos whose key was not in the listing
\* page used, each a favorite of the requesting identity, and none when the
\* request carries a nextToken.
C9_BoundedBackfill ==
    (pc = "done" /\ response.statusCode = 200) =>
        /\ Cardinality(Spliced) <= 3
        /\ \A i \in Spliced : << req.userId, response.photos[i].key >> \in favs
        /\ Truthy(req.nextToken) => Spliced = {}

\* C9 witness: the identity has more than 3 favorites outside the page and
\* the response holds exactly 3 of them.
C9_Witness ==
    /\ pc = "done"
    /\ response.statusCode = 200
    /\ Cardinality(Spliced) = 3
    /\ Cardinality({m \in favs : m[1] = req.userId
                                 /\ m[2] \notin Range(loc.finalData.Contents)}) > 3

\* C10: the nextToken of a response, sent back on the next request, is
\* decoded to exactly the continuation token the store had issued, and that
\* token is what the listing is resumed with.
C10_CursorRoundTrip ==
    [][ (pc = "done" /\ pc' = "list")
        => /\ calls'[1].params.ContinuationToken = loc.finalData.NextContinuationToken
           /\ ValidToken(calls'[1].params.ContinuationToken)
           /\ calls'[1].params.StartAfter = None ]_vars

\* C10 witness: a page that was resumed with the nextToken of the response
\* before it.
C10_Witness ==
    /\ pc = "done"
    /\ response.statusCode = 200
    /\ Truthy(req.nextToken)
    /\ req.nextToken \notin ClientTokens
    /\ loc.listParams.ContinuationToken \in {StoreToken(k) : k \in store}

-----------------------------------------------------------------------------
(* Concurrent callers of getPrivateKey in one process *)

\* A caller of getPrivateKey: where it stands, how it went through the
\* function, the promise it awaits and the key it received.
ReadyCaller == [pc |-> "ready", via |-> "", promise |-> NoPromise, key |-> None]

KeyInit ==
    /\ store = {}
    /\ favs = {}
    /\ unsignable = {}
    /\ env \in {FullEnv, [FullEnv EXCEPT !.CLOUDFRONT_PRIVATE_KEY_SECRET_NAME = FALSE]}
    /\ secret \in Secrets
    /\ WorkerInit

\* The parts of the state a getPrivateKey call leaves alone.
RequestUnchanged == UNCHANGED << pc, req, loc, calls, response, served >>

\* Caller c enters getPrivateKey and runs it up to its first await.
Call(c) ==
    /\ callers[c].pc = "ready"
    /\ LET step == GetPrivateKeyStep(cachedPrivateKey, privateKeyPromise,
                                     env.CLOUDFRONT_PRIVATE_KEY_SECRET_NAME)
       IN  CASE step = "cached" ->
                  /\ callers' = [callers EXCEPT ![c] =
                         [pc |-> "done", via |-> step, promise |-> NoPromise,
                          key |-> cachedPrivateKey]]
                  /\ UNCHANGED << privateKeyPromise, promises, fetches >>
             [] step = "join" ->
                  /\ callers' = [callers EXCEPT ![c] =
                         [pc |-> "awaiting", via |-> step,
                          promise |-> privateKeyPromise, key |-> None]]
                  /\ UNCHANGED << privateKeyPromise, promises, fetches >>
             [] step = "throw" ->
                  /\ callers' = [callers EXCEPT ![c] =
                         [pc |-> "failed", via |-> step, promise |-> NoPromise,
                          key |-> None]]
                  /\ UNCHANGED << privateKeyPromise, promises, fetches >>
             [] step = "fetch" ->
                  /\ promises' = Append(promises, PendingPromise)
                  /\ privateKeyPromise' = Len(promises) + 1
                  /\ fetches' = fetches + 1
                  /\ callers' = [callers EXCEPT ![c] =
                         [pc |-> "awaiting", via |-> step,
                          promise |-> Len(promises) + 1, key |-> None]]
    /\ UNCHANGED cachedPrivateKey
    /\ WorldUnchanged /\ RequestUnchanged

\* The secret store answers the fetch behind promise p: the body of the
\* promise fills the cache and resolves, or resets privateKeyPromise and
\* rejects.
FetchReturns(p) ==
    /\ promises[p].state = "pending"
    /\ \E up \in BOOLEAN :
         LET outcome == FetchOutcome(secret, up)
         IN  /\ promises' = [promises EXCEPT ![p] = Settled(outcome)]
             /\ cachedPrivateKey' = IF outcome.ok THEN outcome.key ELSE cachedPrivateKey
             /\ privateKeyPromise' = PromiseAfter(outcome, privateKeyPromise)
    /\ UNCHANGED << callers, fetches >>
    /\ WorldUnchanged /\ RequestUnchanged

\* Caller c resumes from its await once the promise is settled.
Resume(c) ==
    /\ callers[c].pc = "awaiting"
    /\ promises[callers[c].promise].state /= "pending"
    /\ callers' = [callers EXCEPT ![c] =
           IF promises[callers[c].promise].state = "resolved"
           THEN [@ EXCEPT !.pc = "done", !.key = promises[callers[c].promise].key]
           ELSE [@ EXCEPT !.pc = "failed"]]
    /\ UNCHANGED << cachedPrivateKey, privateKeyPromise, promises, fetches >>
    /\ WorldUnchanged /\ RequestUnchanged

\* A further caller arrives in the process.
Arrive ==
    /\ Len(callers) < MaxCallers
    /\ callers' = Append(callers, ReadyCaller)
    /\ UNCHANGED << cachedPrivateKey, privateKeyPromise, promises, fetches >>
    /\ WorldUnchanged /\ RequestUnchanged

KeyNext ==
    \/ Arrive
    \/ \E c \in DOMAIN callers : Call(c)
    \/ \E p \in DOMAIN promises : FetchReturns(p)
    \/ \E c \in DOMAIN callers : Resume(c)

SpecKey == KeyInit /\ [][KeyNext]_vars

\* No fetch has failed so far.
NoFetchFailed == \A p \in DOMAIN promises : promises[p].state /= "rejected"

\* The callers that have entered getPrivateKey.
Entered == {c \in DOMAIN callers : callers[c].pc /= "ready"}

\* C7: for any interleaving of getPrivateKey calls that start with an empty
\* cache and in which no fetch fails, exactly one fetch is issued, at no
\* time are two fetches in flight, and every caller receives the same key.
C7_SingleFetch ==
    (NoFetchFailed /\ env.CLOUDFRONT_PRIVATE_KEY_SECRET_NAME) =>
        /\ Entered /= {} => fetches = 1
        /\ Cardinality({p \in DOMAIN promises : promises[p].state = "pending"}) <= 1
        /\ \A c \in Entered : callers[c].pc /= "failed"
        /\ \A c \in Entered : callers[c].pc = "done" =>
               /\ promises[1].state = "resolved"
               /\ callers[c].key = promises[1].key
        /\ \A c, d \in Entered :
               (callers[c].pc = "done" /\ callers[d].pc = "done")
               => callers[c].key = callers[d].key

\* C7 witness: every caller has its key from one fetch, two of them after
\* awaiting the promise of the caller that started it.
C7_Witness ==
    /\ NoFetchFailed
    /\ Len(callers) = MaxCallers
    /\ \A c \in DOMAIN callers : callers[c].pc = "done"
    /\ fetches = 1
    /\ Cardinality({c \in DOMAIN callers : callers[c].via = "join"}) >= 2

-----------------------------------------------------------------------------
(* The listing worker under every kind of limit value *)

\* Query-string values of limit: absent, empty, non-numeric, zero, negative,
\* in range, at the maximum, above it, and digits followed by other text.
LimitValues ==
    {None, << >>, Str(<< "a", "b", "c" >>), Str(<< "0" >>), Str(<< "-", "5" >>),
     Str(<< "7" >>), Str(<< "1", "0", "0" >>), Str(<< "2", "5", "0" >>),
     Str(<< "4", "p", "x" >>)}

\* A fully configured deployment over each store and favorites table.
LimitInit ==
    /\ store \in Stores
    /\ favs \in FavTables
    /\ env = FullEnv
    /\ secret = PopulatedSecret
    /\ unsignable = {}
    /\ WorkerInit

\* A client asks for a first page with any of the limit values.
LimitRequest ==
    /\ pc = "idle"
    /\ served < MaxRequests
    /\ \E raw \in LimitValues, u \in {NoUser, "u1"} :
         Receive([limit |-> raw, nextToken |-> None, userId |-> u,
                  headers |-> NoHeaders],
                 StartKeys(MaxPick))

LimitNext == LimitRequest \/ Handle \/ Deliver

SpecLimit == LimitInit /\ [][LimitNext]_vars

\* clamp(parsedLimit, 1, 100), with 25 for a value that is no number.
ClampedLimit(raw) ==
    LET parsed == ParseInt(raw)
    IN  IF parsed.nan THEN 25 ELSE Max(1, Min(parsed.val, 100))

\* C6: for every limit query value, the page size used for the store
\* listing and reported in pagination.limit is clamp(parsedLimit, 1, 100),
\* with 25 for an absent or non-numeric value.
C6_ClampedPageSize ==
    /\ Len(ListCalls) >= 1 => ListCalls[1].params.MaxKeys = ClampedLimit(req.limit)
    /\ (pc = "done" /\ response.statusCode = 200)
       => response.pagination.limit = ClampedLimit(req.limit)

-----------------------------------------------------------------------------
(* Pagination metadata and continuation requests *)

\* What the store answers to the i-th listing of the invocation.
ListingOf(i) == ListObjectsV2(store, ListCalls[i].params)

\* The store listing whose objects populate the page: the fallback listing
\* when its objects are the ones used, else the first listing.
PageListing ==
    IF Len(ListCalls) = 2 /\ ListingOf(2).Contents = loc.finalData.Contents
    THEN ListingOf(2) ELSE ListingOf(1)

\* C11: in every 200 response, pagination.nextToken is present if and only
\* if pagination.hasMore is true, if and only if the listing whose objects
\* populate the page reported truncation with a continuation token; the
\* nextToken is the encoding of that listing's token.
C11_PaginationFromListing ==
    (pc = "done" /\ response.statusCode = 200) =>
        LET truncated == PageListing.IsTruncated
                         /\ Truthy(PageListing.NextContinuationToken)
        IN  /\ Truthy(response.pagination.nextToken) <=> response.pagination.hasMore
            /\ response.pagination.hasMore <=> truncated
            /\ truncated => response.pagination.nextToken
                            = EncodeToken(PageListing.NextContinuationToken)

\* C11 witness: a 200 response with more to come whose page is that of the
\* fallback listing, the sample having reported no truncation.
C11_Witness ==
    /\ pc = "done"
    /\ response.statusCode = 200
    /\ Len(ListCalls) = 2
    /\ loc.finalData /= loc.data
    /\ ~loc.data.IsTruncated
    /\ response.pagination.hasMore
    /\ Truthy(response.pagination.nextToken)

\* C12: for a request that carries a nextToken (in a deployment whose
\* bucket is configured), the handler issues exactly one store listing, with
\* ContinuationToken set to the decoded token and no StartAfter; there is no
\* fallback listing, and the photos of a 200 response are exactly the
\* eligible keys of that listing's page.
C12_ContinuationIsDeterministic ==
    (pc /= "idle" /\ Truthy(req.nextToken) /\ env.BUCKET) =>
        /\ Len(ListCalls) = 1
        /\ ListCalls[1].params.ContinuationToken = DecodeToken(req.nextToken)
        /\ ListCalls[1].params.StartAfter = None
        /\ pc /= "fallback"
        /\ (pc = "done" /\ response.statusCode = 200) =>
               /\ ResponseKeys = {k \in Range(ListingOf(1).Contents) : IsEligible(k)}
               /\ Len(response.photos) = Cardinality(ResponseKeys)

\* C12 witness: a 200 response to a continuation request of an identity
\* that has favorites outside the page, with an eligible photo in the page.
C12_Witness ==
    /\ pc = "done"
    /\ response.statusCode = 200
    /\ Truthy(req.nextToken)
    /\ Len(response.photos) > 0
    /\ \E m \in favs : m[1] = req.userId /\ m[2] \notin ResponseKeys

-----------------------------------------------------------------------------
(* The end-to-end scenario: one folder of three keys *)

KXjpg == Str(<< "2", "0", "2", "0", "_", "J", "u", "n", "e", "/", "x", ".", "j", "p", "g" >>)
KYjpg == Str(<< "2", "0", "2", "0", "_", "J", "u", "n", "e", "/", "y", ".", "j", "p", "g" >>)
KYvar == Str(<< "2", "0", "2", "0", "_", "J", "u", "n", "e", "/", "y", "_", "a", ".", "j", "p", "g" >>)

ScenarioStore == {KXjpg, KYjpg, KYvar}

\* A fully configured deployment over the scenario's store, with no
\* favorites or with y.jpg the only favorite of u1.
ScenarioInit ==
    /\ store = ScenarioStore
    /\ favs \in {{}, {<< "u1", KYjpg >>}}
    /\ env = FullEnv
    /\ secret = PopulatedSecret
    /\ unsignable = {}
    /\ WorkerInit

\* A first-page request with limit=10; the sampler may return any of its
\* values.
ScenarioRequest ==
    /\ pc = "idle"
    /\ served < MaxRequests
    /\ \E u \in {NoUser, "u1"} :
         Receive([limit |-> Str(<< "1", "0" >>), nextToken |-> None, userId |-> u,
                  headers |-> NoHeaders],
                 GenerateRandomStartKey)

ScenarioNext == ScenarioRequest \/ Handle \/ Deliver

SpecScenario == ScenarioInit /\ [][ScenarioNext]_vars

\* No call of the invocation to a store or to the secret store has failed.
NoCallFailed == \A i \in DOMAIN calls : ~calls[i].failed

\* C13: with the three-key store, no favorites, limit=10 and no cursor, and
\* every store call answered, the response is a 200 that holds exactly x.jpg
\* and y.jpg, hasMore false and no nextToken, for every seek point.
C13_ScenarioTwoKeys ==
    (pc = "done" /\ favs = {} /\ NoCallFailed) =>
        /\ response.statusCode = 200
        /\ ResponseKeys = {KXjpg, KYjpg}
        /\ Len(response.photos) = 2
        /\ ~response.pagination.hasMore
        /\ response.pagination.nextToken = None

\* C13 witness: the response after a seek point beyond the three keys, which
\* made the sample empty and the fallback listing supply the page.
C13_Witness ==
    /\ pc = "done"
    /\ favs = {}
    /\ NoCallFailed
    /\ response.statusCode = 200
    /\ ListCalls[1].params.StartAfter /= None
    /\ loc.data.Contents = << >>
    /\ Len(ListCalls) = 2
    /\ Len(response.photos) = 2

\* C14: with the three-key store and an identity whose only favorite is
\* y.jpg, a first-page request of that identity that is answered with 200
\* has y.jpg, isFavorite true, at position 0 of photos, for every seek point
\* and every comparator outcome; it is answered with 200 when no call fails.
C14_ScenarioFavoriteFirst ==
    (pc = "done" /\ req.userId = "u1" /\ favs = {<< "u1", KYjpg >>}) =>
        /\ NoCallFailed => response.statusCode = 200
        /\ response.statusCode = 200 =>
               /\ Len(response.photos) >= 1
               /\ response.photos[1].key = KYjpg
               /\ response.photos[1].isFavorite

\* C14 witness: y.jpg leads a page that also holds x.jpg.
C14_Witness ==
    /\ pc = "done"
    /\ req.userId = "u1"
    /\ favs = {<< "u1", KYjpg >>}
    /\ response.statusCode = 200
    /\ Len(response.photos) = 2
    /\ response.photos[1].key = KYjpg
    /\ response.photos[2].key = KXjpg

-----------------------------------------------------------------------------
(* The write handlers: events and bodies *)

\* A JSON value that is no string (a number), and so has no string methods.
NotAString == << -2 >>

\* The text of the `sub` claim of the two identities.
SubOf(u) ==
    IF u = "u1"
    THEN Str(<< "1", "1", "1", "1", "1", "1", "1", "1", "-", "a" >>)
    ELSE Str(<< "1", "1", "1", "1", "1", "1", "1", "1", "-", "b" >>)

\* event.body as the handlers see it after JSON.parse(event.body || '{}'):
\* `kind` is "absent" (no body: parsed from '{}'), "invalid" (no JSON: the
\* parse throws), "null" (the JSON value null: reading a field throws) or
\* "object"; a field is None when the object lacks it.
NoBody == [kind |-> "absent", photoKey |-> None, tag |-> None,
           fileName |-> None, fileType |-> None]

\* JSON.parse succeeds and yields something whose fields can be read.
BodyReadable(body) == body.kind \in {"absent", "object"}

\* A field of the parsed body.
Field(body, name) == IF body.kind = "object" THEN body[name] ELSE None

\* A truthy JSON value: a non-empty string or a number.
TruthyValue(v) == v = NotAString \/ Truthy(v)

\* A response of a write handler.
WriteResponse(status, message, origin) ==
    [statusCode |-> status, error |-> message, allowOrigin |-> origin,
     result |-> << >>]

-----------------------------------------------------------------------------
(* The upload-url handler *)

\* fileName.replace(/[^a-zA-Z0-9.-]/g, '_')
Sanitize(fileName) ==
    [i \in 1..Len(fileName) |->
        IF \/ IsDigit(fileName[i])
           \/ fileName[i] \in 65..90
           \/ fileName[i] \in 97..122
           \/ fileName[i] \in {45, 46}
        THEN fileName[i] ELSE 95]

\* The content types the handler accepts.
allowedTypes ==
    {Str(<< "i", "m", "a", "g", "e", "/", "j", "p", "e", "g" >>),
     Str(<< "i", "m", "a", "g", "e", "/", "j", "p", "g" >>),
     Str(<< "i", "m", "a", "g", "e", "/", "p", "n", "g" >>),
     Str(<< "i", "m", "a", "g", "e", "/", "g", "i", "f" >>),
     Str(<< "i", "m", "a", "g", "e", "/", "w", "e", "b", "p" >>)}

\* `${timestamp}_${userId.substring(0, 8)}_${sanitizedFileName}`
UploadKey(timestamp, userId, fileName) ==
    NumToString(timestamp) \o << 95 >> \o SubSeq(SubOf(userId), 1, Min(8, Len(SubOf(userId))))
    \o << 95 >> \o Sanitize(fileName)

\* The upload-url handler on event e, at time `timestamp`, when the
\* presigner succeeds (`up`) or throws: the response and the key it signed
\* (None when it signed nothing).
UploadUrlHandler(e, timestamp, up) ==
    LET corsOrigin == CorsOrigin(e.headers)
        fileName   == Field(e.body, "fileName")
        fileType   == Field(e.body, "fileType")
        Thrown(message) == [response |-> WriteResponse(500, message, corsOrigin),
                            key |-> None, signed |-> FALSE]
    IN  IF e.userId = NoUser THEN Thrown("TypeError")
        ELSE IF e.body.kind = "invalid" THEN Thrown("SyntaxError")
        ELSE IF e.body.kind = "null" THEN Thrown("TypeError")
        ELSE IF ~TruthyValue(fileName) \/ ~TruthyValue(fileType)
        THEN [response |-> WriteResponse(400, "fileName and fileType are required",
                                         corsOrigin),
              key |-> None, signed |-> FALSE]
        ELSE IF fileType = NotAString THEN Thrown("TypeError")
        ELSE IF ToLowerCase(fileType) \notin allowedTypes
        THEN [response |-> WriteResponse(400, "Only image files are allowed",
                                         corsOrigin),
              key |-> None, signed |-> FALSE]
        ELSE IF fileName = NotAString THEN Thrown("TypeError")
        ELSE IF ~up
        THEN [response |-> WriteResponse(500, "CredentialsProviderError", corsOrigin),
              key |-> UploadKey(timestamp, e.userId, fileName), signed |-> FALSE]
        ELSE [response |-> [WriteResponse(200, "", corsOrigin) EXCEPT
                                !.result = << UploadKey(timestamp, e.userId, fileName) >>],
              key |-> UploadKey(timestamp, e.userId, fileName), signed |-> TRUE]

\* Values of Date.now().
Timestamps == {1000, 1001}

\* The parts of the worker that a write handler does not touch.
ListingUnchanged ==
    UNCHANGED << loc, cachedPrivateKey, privateKeyPromise, promises, fetches, callers >>

\* An invocation of the upload-url handler.
UploadUrl(e) ==
    /\ pc = "idle"
    /\ served' = served + 1
    /\ req' = e
    /\ \E timestamp \in Timestamps, up \in BOOLEAN :
         LET out == UploadUrlHandler(e, timestamp, up)
         IN  /\ response' = out.response
             /\ calls' = IF out.key = None THEN << >>
                         ELSE << [op |-> "getSignedUrl", key |-> out.key,
                                  failed |-> ~out.signed] >>
    /\ pc' = "done"
    /\ WorldUnchanged /\ ListingUnchanged

-----------------------------------------------------------------------------
(* Origins: the listing handler and the upload-url handler *)

\* An origin outside the allow-list.
OriginOther == Str(<< "h", "t", "t", "p", "s", ":", "/", "/", "e", "v", "i", "l", ".", "e", "x", "a", "m", "p", "l", "e" >>)

\* The Origin header of a request: absent, or one of three origins under
\* either spelling of the header name.
HeaderValues ==
    {NoHeaders}
    \cup {[origin |-> o, Origin |-> None] : o \in {OriginLocal, OriginNetlify, OriginOther}}
    \cup {[origin |-> None, Origin |-> o] : o \in {OriginLocal, OriginNetlify, OriginOther}}

\* Bodies of upload-url requests: none, no JSON, a complete request for an
\* image, and one for a text file.
UploadBodies ==
    {NoBody,
     [NoBody EXCEPT !.kind = "invalid"],
     [NoBody EXCEPT !.kind = "object",
                    !.fileName = Str(<< "a", " ", "b", ".", "p", "n", "g" >>),
                    !.fileType = Str(<< "I", "m", "a", "g", "e", "/", "P", "N", "G" >>)],
     [NoBody EXCEPT !.kind = "object",
                    !.fileName = Str(<< "c", ".", "t", "x", "t" >>),
                    !.fileType = Str(<< "t", "e", "x", "t", "/", "p", "l", "a", "i", "n" >>)]}

\* Deployments with and without a bucket, over each store and table.
CorsInit ==
    /\ store \in Stores
    /\ favs \in FavTables
    /\ env \in {FullEnv, [FullEnv EXCEPT !.BUCKET = FALSE]}
    /\ secret = PopulatedSecret
    /\ unsignable \in {{}, {K0jpg}}
    /\ WorkerInit

\* A first-page listing request from any origin.
CorsListing ==
    /\ pc = "idle"
    /\ served < MaxRequests
    /\ \E u \in {NoUser, "u1"}, h \in HeaderValues :
         Receive([limit |-> Str(<< "3" >>), nextToken |-> None, userId |-> u,
                  headers |-> h],
                 StartKeys(MaxPick))

\* An upload-url request from any origin.
CorsUpload ==
    /\ served < MaxRequests
    /\ \E u \in {NoUser, "u1"}, h \in HeaderValues, b \in UploadBodies :
         UploadUrl([httpMethod |-> "POST", userId |-> u, headers |-> h, body |-> b])

CorsNext == CorsListing \/ CorsUpload \/ Handle \/ Deliver

SpecCors == CorsInit /\ [][CorsNext]_vars

\* The Origin header of the request, under either spelling.
RequestOrigin ==
    IF req.headers.origin /= None THEN req.headers.origin ELSE req.headers.Origin

\* C15: every response of the listing handler and of the upload-url handler,
\* success or error, carries Access-Control-Allow-Origin equal to the
\* request's Origin when that origin is in the allow-list and equal to the
\* default origin otherwise; the status is never one of rejection.
C15_CorsOnEveryResponse ==
    pc = "done" =>
        /\ response.allowOrigin =
               IF RequestOrigin \in {OriginLocal, OriginNetlify}
               THEN RequestOrigin ELSE OriginLocal
        /\ response.statusCode \in {200, 400, 500}

\* C15 witness: an error response that echoes the second allowed origin,
\* sent under the capitalized header name.
C15_Witness ==
    /\ pc = "done"
    /\ response.statusCode = 500
    /\ req.headers.Origin = OriginNetlify
    /\ response.allowOrigin = OriginNetlify

-----------------------------------------------------------------------------
(* The favorites handler and the tags handler *)

\* No store call.
NoCall == [op |-> "none"]

\* The favorites handler on event e, when the table answers (`up`) or fails:
\* the response and the table call it sent.
ManageFavoritesHandler(e, up) ==
    LET photoKey == Field(e.body, "photoKey")
        Thrown(message) == [response |-> WriteResponse(500, message, OriginLocal),
                            call |-> NoCall]
        Sent(op, message) ==
            [response |-> IF up THEN WriteResponse(200, message, OriginLocal)
                          ELSE WriteResponse(500, "ServiceUnavailable", OriginLocal),
             call |-> [op |-> op, userId |-> e.userId, photoKey |-> photoKey,
                       failed |-> ~up]]
    IN  IF e.userId = NoUser THEN Thrown("TypeError")
        ELSE IF e.body.kind = "invalid" THEN Thrown("SyntaxError")
        ELSE IF e.body.kind = "null" THEN Thrown("TypeError")
        ELSE IF ~TruthyValue(photoKey)
        THEN [response |-> WriteResponse(400, "photoKey is required", OriginLocal),
              call |-> NoCall]
        ELSE IF e.httpMethod = "POST" THEN Sent("PutItem", "Favorite added")
        ELSE IF e.httpMethod = "DELETE" THEN Sent("DeleteItem", "Favorite removed")
        ELSE [response |-> WriteResponse(405, "Method not allowed", OriginLocal),
              call |-> NoCall]

\* The favorites table after a call that succeeded.
FavsAfter(table, call) ==
    IF call.op = "PutItem" /\ ~call.failed
    THEN table \cup {<< call.userId, call.photoKey >>}
    ELSE IF call.op = "DeleteItem" /\ ~call.failed
    THEN table \ {<< call.userId, call.photoKey >>}
    ELSE table

\* The createdAt attributes after a call that succeeded at time `now`:
\* PutItem writes the whole item, over an item of the same key if there is one.
CreatedAtAfter(stamps, table, call, now) ==
    [m \in FavsAfter(table, call) |->
        IF call.op = "PutItem" /\ ~call.failed
           /\ m = << call.userId, call.photoKey >>
        THEN now ELSE stamps[m]]

\* An invocation of the favorites handler.
ManageFavorites(e) ==
    /\ pc = "idle"
    /\ served' = served + 1
    /\ req' = e
    /\ \E up \in BOOLEAN :
         LET out == ManageFavoritesHandler(e, up)
         IN  /\ response' = out.response
             /\ calls' = IF out.call = NoCall THEN << >> ELSE << out.call >>
             /\ favs' = FavsAfter(favs, out.call)
             /\ \E now \in Timestamps :
                  createdAt' = CreatedAtAfter(createdAt, favs, out.call, now)
    /\ pc' = "done"
    /\ UNCHANGED << store, tags, env, secret, unsignable >>
    /\ ListingUnchanged

\* A tags item that keeps the tag as it was sent.
TagItemUntrimmed(userId, photoKey, tag) ==
    [photoKey |-> photoKey, userIdTag |-> SubOf(userId) \o << 35 >> \o tag,
     userId |-> userId, tag |-> tag]

\* An item of the tags table (partition key photoKey, sort key userIdTag).
TagItem(userId, photoKey, tag) ==
    [photoKey |-> photoKey, userIdTag |-> SubOf(userId) \o << 35 >> \o Trim(tag),
     userId |-> userId, tag |-> Trim(tag)]

\* The tags of a photo, as the Query returns them (in sort-key order).
TagsOf(table, photoKey) ==
    LET items == {t \in table : t.photoKey = photoKey}
        order == SortedSeq({t.userIdTag : t \in items})
    IN  [i \in 1..Len(order) |->
            LET t == CHOOSE x \in items : x.userIdTag = order[i]
            IN  [userId |-> t.userId, tag |-> t.tag]]

\* The tags handler on event e over the table, when the table answers
\* (`up`) or fails: the response and the table call it sent.
ManageTagsHandler(e, table, up) ==
    LET photoKey == Field(e.body, "photoKey")
        tag      == Field(e.body, "tag")
        Thrown(message) == [response |-> WriteResponse(500, message, OriginLocal),
                            call |-> NoCall]
        Refused(message) == [response |-> WriteResponse(400, message, OriginLocal),
                             call |-> NoCall]
        Sent(op, answer) ==
            [response |-> IF up THEN answer
                          ELSE WriteResponse(500, "ServiceUnavailable", OriginLocal),
             call |-> [op |-> op, photoKey |-> photoKey,
                       item |-> IF op = "Query" THEN NoCall
                                ELSE TagItem(e.userId, photoKey, tag),
                       failed |-> ~up]]
    IN  IF e.userId = NoUser THEN Thrown("TypeError")
        ELSE IF e.body.kind = "invalid" THEN Thrown("SyntaxError")
        ELSE IF e.body.kind = "null" THEN Thrown("TypeError")
        ELSE IF ~TruthyValue(photoKey) THEN Refused("photoKey is required")
        ELSE IF e.httpMethod \in {"POST", "DELETE"}
        THEN IF ~TruthyValue(tag) THEN Refused("tag is required")
             ELSE IF tag = NotAString THEN Thrown("TypeError")
             ELSE IF Len(Trim(tag)) = 0 THEN Refused("tag is required")
             ELSE IF e.httpMethod = "POST"
             THEN Sent("PutItem", [WriteResponse(200, "Tag added", OriginLocal)
                                      EXCEPT !.result = << Trim(tag) >>])
             ELSE Sent("DeleteItem", WriteResponse(200, "Tag removed", OriginLocal))
        ELSE IF e.httpMethod = "GET"
        THEN Sent("Query", [WriteResponse(200, "", OriginLocal)
                               EXCEPT !.result = TagsOf(table, photoKey)])
        ELSE [response |-> WriteResponse(405, "Method not allowed", OriginLocal),
              call |-> NoCall]

\* The tags table after a call that succeeded.
TagsAfter(table, call) ==
    IF call.op = "PutItem" /\ ~call.failed
    THEN {t \in table : ~(t.photoKey = call.item.photoKey
                          /\ t.userIdTag = call.item.userIdTag)} \cup {call.item}
    ELSE IF call.op = "DeleteItem" /\ ~call.failed
    THEN {t \in table : ~(t.photoKey = call.item.photoKey
                          /\ t.userIdTag = call.item.userIdTag)}
    ELSE table

\* An invocation of the tags handler.
ManageTags(e) ==
    /\ pc = "idle"
    /\ served' = served + 1
    /\ req' = e
    /\ \E up \in BOOLEAN :
         LET out == ManageTagsHandler(e, tags, up)
         IN  /\ response' = out.response
             /\ calls' = IF out.call = NoCall THEN << >> ELSE << out.call >>
             /\ tags' = TagsAfter(tags, out.call)
    /\ pc' = "done"
    /\ UNCHANGED << store, favs, createdAt, env, secret, unsignable >>
    /\ ListingUnchanged

-----------------------------------------------------------------------------
(* The write handlers under every kind of body *)

\* Requests a worker of the write handlers takes in a behaviour.
MaxWrites == 2

TagText  == Str(<< " ", "s", "e", "a", " " >>)
FileName == Str(<< "a", " ", "b", ".", "p", "n", "g" >>)
TypePng  == Str(<< "i", "m", "a", "g", "e", "/", "p", "n", "g" >>)
TypeText == Str(<< "t", "e", "x", "t", "/", "p", "l", "a", "i", "n" >>)

\* Bodies that are no object.
BrokenBodies ==
    {NoBody, [NoBody EXCEPT !.kind = "invalid"], [NoBody EXCEPT !.kind = "null"]}

\* Bodies of favorites requests: the photoKey absent, empty, of a stored
\* image, of a stored text file, or of no stored object.
FavoriteBodies ==
    BrokenBodies
    \cup {[NoBody EXCEPT !.kind = "object", !.photoKey = k] :
             k \in {None, << >>, K0jpg, KCtxt, KGone1}}

\* Bodies of tags requests: the photoKey absent or present, the tag absent,
\* empty, blank, a number, or a text with spaces around it.
TagBodies ==
    BrokenBodies
    \cup {[NoBody EXCEPT !.kind = "object", !.photoKey = k, !.tag = t] :
             k \in {None, K0jpg},
             t \in {None, << >>, << 32, 32 >>, NotAString, TagText}}

\* Bodies of upload-url requests: each field absent, empty, a number or a
\* text; the type an image type or not.
UploadFieldBodies ==
    BrokenBodies
    \cup {[NoBody EXCEPT !.kind = "object", !.fileName = n, !.fileType = t] :
             n \in {None, << >>, NotAString, FileName},
             t \in {None, NotAString, TypePng, TypeText}}

WriteInit ==
    /\ store = Album
    /\ favs \in {{}, {<< "u1", K0jpg >>}}
    /\ env = FullEnv
    /\ secret = PopulatedSecret
    /\ unsignable = {}
    /\ WorkerInit

FavoritesRequest ==
    /\ served < MaxWrites
    /\ \E m \in {"POST", "DELETE", "GET"}, u \in {NoUser, "u1"}, b \in FavoriteBodies :
         ManageFavorites([route |-> "favorites", httpMethod |-> m, userId |-> u,
                          headers |-> NoHeaders, body |-> b])

TagsRequest ==
    /\ served < MaxWrites
    /\ \E m \in {"POST", "DELETE", "GET", "PUT"}, u \in {NoUser, "u1"}, b \in TagBodies :
         ManageTags([route |-> "tags", httpMethod |-> m, userId |-> u,
                     headers |-> NoHeaders, body |-> b])

UploadRequest ==
    /\ served < MaxWrites
    /\ \E u \in {NoUser, "u1"}, b \in UploadFieldBodies :
         UploadUrl([route |-> "upload", httpMethod |-> "POST", userId |-> u,
                    headers |-> NoHeaders, body |-> b])

WriteNext == FavoritesRequest \/ TagsRequest \/ UploadRequest \/ Deliver

SpecWrite == WriteInit /\ [][WriteNext]_vars

\* A required field of the request's body is missing or malformed: the body
\* is no JSON object, or a field the route and method require is absent,
\* empty, blank or no string.
Usable(v) == v /= None /\ v /= NotAString /\ Len(Trim(v)) > 0

InvalidBody ==
    \/ req.body.kind \in {"invalid", "null"}
    \/ req.route = "favorites" /\ ~Usable(Field(req.body, "photoKey"))
    \/ req.route = "tags" /\ ~Usable(Field(req.body, "photoKey"))
    \/ req.route = "tags" /\ req.httpMethod \in {"POST", "DELETE"}
                          /\ ~Usable(Field(req.body, "tag"))
    \/ req.route = "upload" /\ ~Usable(Field(req.body, "fileName"))
    \/ req.route = "upload" /\ ~Usable(Field(req.body, "fileType"))

\* C16: in the favorites, tags and upload-url handlers, a request whose
\* required body field is missing or malformed (a body that is no valid JSON
\* included) gets a 400 response with an error body, and no store call is
\* made.
C16_InvalidBodyIs400 ==
    (pc = "done" /\ req.userId /= NoUser /\ InvalidBody) =>
        /\ response.statusCode = 400
        /\ response.error /= ""
        /\ calls = << >>

-----------------------------------------------------------------------------
(* Failures, identities and favorite markers *)

\* C17: whenever a call of the listing handler to the object store, the
\* table store or the secret store fails, the request ends in a 500 response
\* with an error message; no such failure yields a 200.
C17_DownstreamFailureIs500 ==
    (pc = "done" /\ ~NoCallFailed) =>
        /\ response.statusCode = 500
        /\ response.error /= ""

\* The eligible keys of the listing page that the signer cannot sign.
UnsignablePagePhotos ==
    {k \in Range(loc.finalData.Contents) : IsEligible(k) /\ k \in unsignable}

\* C18: a failure to sign the URL of a backfilled favorite never fails the
\* request (the backfill is always followed by the 200 response, without the
\* favorites that could not be signed); a failure to sign the URL of a photo
\* of the listing page fails the whole request with 500.
C18_SigningFailures ==
    [][ /\ pc = "backfill" =>
            /\ pc' = "respond"
            /\ \A i \in 1..Len(loc'.photos) : loc'.photos[i].url.ok
            /\ \A i \in 1..Len(loc.photos) :
                   \E j \in 1..Len(loc'.photos) : loc'.photos[j] = loc.photos[i]
        /\ pc = "respond" => (pc' = "done" /\ response'.statusCode = 200)
        /\ (pc = "sign" /\ UnsignablePagePhotos /= {}) =>
               (pc' = "done" /\ response'.statusCode = 500) ]_vars

\* C18 witness: a 200 response that lacks a favorite of the identity whose
\* URL could not be signed and holds another favorite that was backfilled.
C18_Witness ==
    /\ pc = "done"
    /\ response.statusCode = 200
    /\ << req.userId, KGone2 >> \in favs
    /\ KGone2 \in unsignable
    /\ KGone2 \notin ResponseKeys
    /\ KGone1 \in ResponseKeys

\* C19: for a listing request without an identity, the favorites table is
\* never read, and every photo returned has isFavorite false and
\* favoriteCount 0.
C19_AnonymousHasNoFavorites ==
    (pc /= "idle" /\ req.userId = NoUser) =>
        /\ \A i \in DOMAIN calls : calls[i].op \notin {"Query", "Scan"}
        /\ pc \notin {"query", "scan", "backfill"}
        /\ \A i \in 1..Len(response.photos) :
               /\ ~response.photos[i].isFavorite
               /\ response.photos[i].favoriteCount = 0

\* C19 witness: a 200 response without identity that holds a photo another
\* user has marked.
C19_Witness ==
    /\ pc = "done"
    /\ response.statusCode = 200
    /\ req.userId = NoUser
    /\ \E m \in favs : m[2] \in ResponseKeys

\* C20: after any sequence of favorites POST and DELETE requests, the
\* markers of every user are markers of keys present in the object store.
C20_MarkersOfStoredKeys ==
    \A m \in favs : m[2] \in store

-----------------------------------------------------------------------------
(* The key cache while the stored secret changes *)

\* The secret store's administrator stores another secret value.
RotateSecret ==
    /\ \E s \in Secrets \ {secret} : secret' = s
    /\ UNCHANGED << store, favs, createdAt, tags, env, unsignable, cachedPrivateKey,
                    privateKeyPromise, callers, promises, fetches >>
    /\ RequestUnchanged

RotateNext ==
    \/ KeyNext
    \/ RotateSecret

SpecRotate == KeyInit /\ [][RotateNext]_vars

\* C21: once the cached signing key is set, no step of the process clears
\* or replaces it and no step issues a further secret-store fetch, whatever
\* the secret store holds by then.
C21_KeyCachedForLife ==
    [][Truthy(cachedPrivateKey) =>
           /\ cachedPrivateKey' = cachedPrivateKey
           /\ fetches' = fetches]_vars

\* C21 witness: the key is cached, the stored secret no longer yields that
\* key, and a caller was served from the cache without a fetch of its own.
C21_Witness ==
    /\ Truthy(cachedPrivateKey)
    /\ FetchOutcome(secret, TRUE).key /= cachedPrivateKey
    /\ fetches = 1
    /\ \E c \in DOMAIN callers :
          /\ callers[c].pc = "done"
          /\ callers[c].via = "cached"
          /\ callers[c].key = cachedPrivateKey

\* C23: a failed fetch is never cached. privateKeyPromise never holds a
\* rejected promise; the step that rejects a fetch promise leaves the cache
\* empty and resets privateKeyPromise; a caller resuming from a rejected
\* promise fails without a key; and a caller that enters getPrivateKey when
\* the latest fetch has failed issues a fetch of its own.
C23_FailureNotCached ==
    /\ [](privateKeyPromise /= NoPromise =>
              promises[privateKeyPromise].state /= "rejected")
    /\ [][\A p \in DOMAIN promises :
              (promises[p].state = "pending" /\ promises'[p].state = "rejected")
              => (~Truthy(cachedPrivateKey') /\ privateKeyPromise' = NoPromise)]_vars
    /\ [][\A c \in DOMAIN callers :
              (/\ callers[c].pc = "awaiting"
               /\ promises[callers[c].promise].state = "rejected"
               /\ callers'[c].pc /= "awaiting")
              => (callers'[c].pc = "failed" /\ callers'[c].key = None)]_vars
    /\ [][\A c \in DOMAIN callers :
              (/\ callers[c].pc = "ready" /\ callers'[c].pc /= "ready"
               /\ promises /= << >>
               /\ promises[Len(promises)].state = "rejected")
              => (/\ fetches' = fetches + 1
                  /\ callers'[c].via = "fetch"
                  /\ promises'[callers'[c].promise].state = "pending")]_vars

\* C23 witness: the caller that started a fetch and a caller that awaited
\* it have both failed on the rejected promise, the cache is empty, and a
\* later caller has issued a second fetch.
C23_Witness ==
    /\ ~Truthy(cachedPrivateKey)
    /\ \E c, d, n \in DOMAIN callers :
          /\ callers[c].pc = "failed" /\ callers[c].via = "fetch"
          /\ callers[d].pc = "failed" /\ callers[d].via = "join"
          /\ callers[d].promise = callers[c].promise
          /\ promises[callers[c].promise].state = "rejected"
          /\ callers[n].via = "fetch"
          /\ callers[n].promise > callers[c].promise
    /\ fetches = 2

-----------------------------------------------------------------------------
(* The top-favorites handler and its own key cache *)

MaxInvocations == 2

\* Math.min(parseInt(queryParams.limit) || 50, 100)
TopLimit(raw) ==
    LET parsed == ParseInt(raw)
    IN  Min(IF parsed.nan \/ parsed.val = 0 THEN 50 ELSE parsed.val, 100)

\* The filter of the counted favorites: no _a. and no _b. variants.
TopEligible(photoKey) ==
    LET key == ToLowerCase(photoKey)
    IN  /\ ~Includes(key, Str(<< "_", "a", "." >>))
        /\ ~Includes(key, Str(<< "_", "b", "." >>))

\* The counted favorites, filtered, sorted by count descending and cut to
\* the limit. Photos of equal count keep the order in which the Scan
\* returned them, which the table does not fix.
SortedFavorites(table, limit) ==
    LET favoriteCounts == CountFavorites(table)
        keys == {k \in DOMAIN favoriteCounts : TopEligible(k)}
        n == Cardinality(keys)
        orders == {o \in [1..n -> keys] :
                     /\ \A a, b \in 1..n : a /= b => o[a] /= o[b]
                     /\ \A a, b \in 1..n :
                           a < b => favoriteCounts[o[a]] >= favoriteCounts[o[b]]}
    IN  {Slice0(o, limit) : o \in orders}

\* The synchronous part of the handler's getPrivateKey: the cached key, or a
\* GetSecretValue call of its own.
TopGetPrivateKeyStep(cached) ==
    IF Truthy(cached) THEN "cached" ELSE "fetch"

\* What getPrivateKey does once the secret store has answered: it assigns
\* the raw key to the cache before it looks whether there is one, and
\* returns the key with its newlines restored.
TopFetchOutcome(sec, up) ==
    IF ~up \/ ~sec.json
    THEN [ok |-> FALSE, assigned |-> FALSE, cached |-> None, key |-> << >>]
    ELSE LET raw == IF Truthy(sec.privateKey)
                    THEN sec.privateKey ELSE sec.placeholder
         IN  IF ~Truthy(raw)
             THEN [ok |-> FALSE, assigned |-> TRUE, cached |-> raw, key |-> << >>]
             ELSE [ok |-> TRUE, assigned |-> TRUE, cached |-> raw,
                   key |-> Unescape(raw)]

\* One signing of the Promise.all batch: where it stands, how it went
\* through getPrivateKey, its fetch, and whether the URL was signed.
TopSigning(photoKey, step, promise, e, cached, bad) ==
    [pc |-> IF step = "cached" THEN "done" ELSE "awaiting",
     via |-> step, promise |-> promise, key |-> photoKey,
     signed |-> step = "cached"
                /\ GetCloudFrontSignedUrl(photoKey, e, cached, bad).ok]

\* The favorites of the response: the signings that did not throw.
ValidFavorites(signings, favoriteCounts) ==
    LET valid == SelectSeq(signings, LAMBDA g : g.signed)
    IN  [i \in 1..Len(valid) |->
           [key |-> valid[i].key, url |-> valid[i].key, isFavorite |-> TRUE,
            favoriteCount |-> favoriteCounts[valid[i].key]]]

\* The handler up to the awaits of the Promise.all batch: the user check,
\* the Scan, the count, and the synchronous part of every signing.
TopReceive(r) ==
    /\ pc = "idle"
    /\ served < MaxInvocations
    /\ served' = served + 1
    /\ req' = r
    /\ IF r.userId = NoUser
       THEN /\ response' = ErrorResponse("User not authenticated", r.headers)
            /\ pc' = "done"
            /\ UNCHANGED << loc, calls, callers, promises, fetches >>
       ELSE \E up \in BOOLEAN :
              /\ calls' = Append(calls, [op |-> "Scan", failed |-> ~up])
              /\ IF ~up
                 THEN /\ response' = ErrorResponse("Scan failed", r.headers)
                      /\ pc' = "done"
                      /\ UNCHANGED << loc, callers, promises, fetches >>
                 ELSE \E sorted \in SortedFavorites(favs, TopLimit(r.limit)) :
                        LET step == TopGetPrivateKeyStep(cachedPrivateKey)
                            n == IF step = "fetch" THEN Len(sorted) ELSE 0
                        IN  /\ loc' = [coldStart |-> ~Truthy(cachedPrivateKey),
                                       favoriteCounts |-> CountFavorites(favs)]
                            /\ callers' = [i \in 1..Len(sorted) |->
                                   TopSigning(sorted[i], step,
                                              IF step = "fetch"
                                              THEN Len(promises) + i ELSE NoPromise,
                                              env, cachedPrivateKey, unsignable)]
                            /\ promises' = promises \o [i \in 1..n |-> PendingPromise]
                            /\ fetches' = fetches + n
                            /\ pc' = "topsign"
                            /\ response' = response
    /\ UNCHANGED << cachedPrivateKey, privateKeyPromise >>
    /\ WorldUnchanged

\* The secret store answers the GetSecretValue call of signing c, and the
\* signing runs to its end.
TopFetchReturns(c) ==
    /\ pc = "topsign"
    /\ callers[c].pc = "awaiting"
    /\ \E up \in BOOLEAN :
         LET outcome == TopFetchOutcome(secret, up)
         IN  /\ promises' = [promises EXCEPT ![callers[c].promise] =
                                [state |-> IF outcome.ok THEN "resolved" ELSE "rejected",
                                 key |-> outcome.key]]
             /\ cachedPrivateKey' = IF outcome.assigned
                                    THEN outcome.cached ELSE cachedPrivateKey
             /\ callers' = [callers EXCEPT ![c] =
                    [@ EXCEPT !.pc = "done",
                              !.signed = outcome.ok /\
                                  GetCloudFrontSignedUrl(callers[c].key, env,
                                      outcome.key, unsignable).ok]]
             /\ calls' = Append(calls, [op |-> "GetSecretValue", failed |-> ~up])
    /\ UNCHANGED << privateKeyPromise, fetches, pc, req, loc, response, served >>
    /\ WorldUnchanged

\* Promise.all has settled: the 200 response with the signed favorites.
TopRespond ==
    /\ pc = "topsign"
    /\ \A c \in DOMAIN callers : callers[c].pc = "done"
    /\ response' = [statusCode |-> 200,
                    photos |-> ValidFavorites(callers, loc.favoriteCounts),
                    pagination |-> NoPagination, error |-> "",
                    allowOrigin |-> CorsOrigin(req.headers)]
    /\ pc' = "done"
    /\ UNCHANGED << req, loc, calls, served, callers, cachedPrivateKey,
                    privateKeyPromise, promises, fetches >>
    /\ WorldUnchanged

TopInit ==
    /\ store = Album
    /\ favs \in FavTables
    /\ env = FullEnv
    /\ secret \in Secrets
    /\ unsignable = {}
    /\ WorkerInit

TopRequests ==
    [limit : {Str(<< "1" >>), Str(<< "3" >>)}, nextToken : {None},
     userId : {NoUser, "u1"}, headers : {NoHeaders}]

TopNext ==
    \/ \E r \in TopRequests : TopReceive(r)
    \/ \E c \in DOMAIN callers : TopFetchReturns(c)
    \/ TopRespond
    \/ Deliver

SpecTop == TopInit /\ [][TopNext]_vars

\* C22: in an invocation of the top-favorites handler that starts with an
\* empty key cache, the signings of the batch issue at most one secret-store
\* fetch between them.
C22_TopFavoritesSingleFetch ==
    (pc \in {"topsign", "done"} /\ req.userId /= NoUser /\ callers /= << >>
        /\ loc /= NoLocals /\ loc.coldStart)
    => Cardinality({c \in DOMAIN callers : callers[c].via = "fetch"}) <= 1

-----------------------------------------------------------------------------
(* The fallback listing *)

\* What the fallback call of the request in progress returned: the store
\* does not change during a request.
FallbackResult ==
    IF calls[2].failed THEN ListFailed ELSE ListObjectsV2(store, calls[2].params)

\* C24: once the fallback listing has been issued, the listing the handler
\* goes on with is the fallback's result if that holds strictly more objects
\* than the sample and is the sample otherwise, in particular when the
\* fallback call failed; and the fallback step never ends the request, it
\* hands over to the next step of the handler whether its call failed or not.
C24_FallbackReplacesOnlyIfLarger ==
    /\ [](loc.fallbackTried =>
             /\ Len(FallbackResult.Contents) > Len(loc.data.Contents)
                    => loc.finalData = FallbackResult
             /\ Len(FallbackResult.Contents) <= Len(loc.data.Contents)
                    => loc.finalData = loc.data
             /\ calls[2].failed => loc.finalData = loc.data)
    /\ [][pc = "fallback" =>
             /\ pc' \in {"query", "prefetch", "sign"}
             /\ response' = response]_vars

\* C24 witness: a request whose fallback call failed has been answered with
\* 200 and the photo of the sample.
C24_Witness ==
    /\ pc = "done"
    /\ loc.fallbackTried
    /\ calls[2].failed
    /\ Len(loc.data.Contents) > 0
    /\ response.statusCode = 200
    /\ Len(response.photos) > 0

-----------------------------------------------------------------------------
(* Favorites and tags as sets of markers *)

\* The step is a favorites request with method `method` answered with 200.
FavoritesSucceeds(method) ==
    /\ pc = "idle" /\ pc' = "done"
    /\ req'.route = "favorites"
    /\ req'.httpMethod = method
    /\ response'.statusCode = 200

\* C25: every successful favorites POST by u for k leaves the marker (u, k)
\* present and every successful DELETE leaves it absent, so that the marker
\* exists exactly when the last such request was a POST; a POST of a marker
\* that is present and a DELETE of one that is absent leave the table as it
\* was; and no request changes a marker other than (u, k), in particular no
\* marker of another user.
C25_FavoritesFollowLastRequest ==
    [][LET m == << req'.userId, Field(req'.body, "photoKey") >>
           others == (favs \cup favs') \ {m}
       IN  /\ FavoritesSucceeds("POST") => m \in favs'
           /\ FavoritesSucceeds("DELETE") => m \notin favs'
           /\ (FavoritesSucceeds("POST") \/ FavoritesSucceeds("DELETE")) =>
                 \A o \in others :
                     o \in favs /\ o \in favs' /\ createdAt'[o] = createdAt[o]
           /\ (FavoritesSucceeds("POST") /\ m \in favs) =>
                 (favs' = favs /\ createdAt' = createdAt)
           /\ (FavoritesSucceeds("DELETE") /\ m \notin favs) =>
                 (favs' = favs /\ createdAt' = createdAt)]_vars

TagSea == Str(<< "s", "e", "a" >>)
TagSky == Str(<< "s", "k", "y", " " >>)

\* Two users tag two photos, with tags that differ in the surrounding
\* whitespace only and with another tag.
TagsInit ==
    /\ store = Album
    /\ favs = {}
    /\ env = FullEnv
    /\ secret = PopulatedSecret
    /\ unsignable = {}
    /\ WorkerInit

TagWrite ==
    /\ served < MaxWrites + 1
    /\ \E m \in {"POST", "DELETE"}, u \in {"u1", "u2"}, k \in {K0jpg, K1gif},
          t \in {TagText, TagSea, TagSky} :
         ManageTags([route |-> "tags", httpMethod |-> m, userId |-> u,
                     headers |-> NoHeaders,
                     body |-> [NoBody EXCEPT !.kind = "object", !.photoKey = k,
                                             !.tag = t]])

TagsNext == TagWrite \/ Deliver

SpecTags == TagsInit /\ [][TagsNext]_vars

\* The step is a tags request with method `method` answered with 200.
TagsSucceeds(method) ==
    /\ pc = "idle" /\ pc' = "done"
    /\ req'.route = "tags"
    /\ req'.httpMethod = method
    /\ response'.statusCode = 200

\* The marker (photo, user, tag text) of an item of the tags table.
MarkerOf(item) == << item.photoKey, item.userId, item.tag >>

\* C26: every successful tags POST by u for p leaves the marker (p, u, t)
\* present, t being the tag of the request trimmed, and every successful
\* DELETE leaves it absent, so that the marker exists exactly when the last
\* request by u for p whose tag trims to t was a POST; the table never holds
\* a tag with surrounding whitespace nor two items of one marker; and no
\* request changes another marker, in particular none of another user.
C26_TagsFollowLastRequest ==
    /\ [](\A x, y \in tags :
             /\ x.tag = Trim(x.tag)
             /\ MarkerOf(x) = MarkerOf(y) => x = y)
    /\ [][LET m == << Field(req'.body, "photoKey"), req'.userId,
                      Trim(Field(req'.body, "tag")) >>
          IN  /\ TagsSucceeds("POST") => m \in {MarkerOf(x) : x \in tags'}
              /\ TagsSucceeds("DELETE") => m \notin {MarkerOf(x) : x \in tags'}
              /\ (TagsSucceeds("POST") \/ TagsSucceeds("DELETE")) =>
                    {x \in tags : MarkerOf(x) /= m} = {x \in tags' : MarkerOf(x) /= m}]_vars

\* C26 witness: u1 has just deleted the tag sent without spaces, its marker
\* is gone, and the marker of u2 for the same photo and tag is in the table.
C26_Witness ==
    /\ pc = "done"
    /\ req.route = "tags" /\ req.httpMethod = "DELETE" /\ req.userId = "u1"
    /\ Field(req.body, "tag") = TagSea
    /\ response.statusCode = 200
    /\ served = MaxWrites + 1
    /\ << K0jpg, "u1", TagSea >> \notin {MarkerOf(x) : x \in tags}
    /\ << K0jpg, "u2", TagSea >> \in {MarkerOf(x) : x \in tags}
    /\ Field(req.body, "photoKey") = K0jpg

-----------------------------------------------------------------------------
(* Upload keys *)

FileNameUnderscore == Str(<< "a", "_", "b", ".", "p", "n", "g" >>)
FileNameOther == Str(<< "c", ".", "p", "n", "g" >>)

UploadInit ==
    /\ store = Album
    /\ favs = {}
    /\ env = FullEnv
    /\ secret = PopulatedSecret
    /\ unsignable = {}
    /\ WorkerInit

\* An upload-url request of either user for an image.
UploadWrite ==
    /\ served < MaxWrites + 1
    /\ \E u \in {"u1", "u2"}, n \in {FileName, FileNameUnderscore, FileNameOther} :
         UploadUrl([route |-> "upload", httpMethod |-> "POST", userId |-> u,
                    headers |-> NoHeaders,
                    body |-> [NoBody EXCEPT !.kind = "object", !.fileName = n,
                                            !.fileType = TypePng]])

\* The response has been sent; the client keeps it.
Return ==
    /\ pc = "done"
    /\ pc' = "idle"
    /\ UNCHANGED << req, loc, calls, response, served, cachedPrivateKey,
                    privateKeyPromise, promises, fetches, callers >>
    /\ WorldUnchanged

UploadNext == UploadWrite \/ Return

SpecUpload == UploadInit /\ [][UploadNext]_vars

\* C27: an upload-url request answered with 200 never returns the key that
\* the upload-url request before it returned, whoever sent the two requests
\* and whatever their file names.
C27_UploadKeysUnique ==
    [][(/\ pc = "idle" /\ pc' = "done"
        /\ response.statusCode = 200 /\ response.result /= << >>
        /\ response'.statusCode = 200)
       => response'.result /= response.result]_vars

-----------------------------------------------------------------------------
(* A listing request while other invocations write favorites *)

\* A first-page request of u1 over the scenario's store.
RaceRequest ==
    /\ pc = "idle"
    /\ served < MaxRequests
    /\ Receive([limit |-> Str(<< "1", "0" >>), nextToken |-> None,
                userId |-> "u1", headers |-> NoHeaders],
               StartKeys(MaxPick))

\* An invocation of the favorites handler in another process completes a
\* POST or a DELETE between two steps of the listing request.
ConcurrentFavorite ==
    /\ \E op \in {"PutItem", "DeleteItem"}, u \in {"u1", "u2"}, now \in Timestamps :
         LET call == [op |-> op, userId |-> u, photoKey |-> KYjpg, failed |-> FALSE]
         IN  /\ FavsAfter(favs, call) /= favs
             /\ favs' = FavsAfter(favs, call)
             /\ createdAt' = CreatedAtAfter(createdAt, favs, call, now)
    /\ UNCHANGED << store, tags, env, secret, unsignable, pc, req, loc, calls,
                    response, served, cachedPrivateKey, privateKeyPromise,
                    promises, fetches, callers >>

RaceNext == RaceRequest \/ Handle \/ ConcurrentFavorite \/ Deliver

SpecRace == ScenarioInit /\ [][RaceNext]_vars

\* C28: whatever favorites writes complete between the steps of a listing
\* request, every photo of its 200 response that has isFavorite true has a
\* favoriteCount of at least 1.
C28_FavoriteHasCount ==
    (pc = "done" /\ response.statusCode = 200) =>
        \A i \in 1..Len(response.photos) :
            response.photos[i].isFavorite => response.photos[i].favoriteCount >= 1

-----------------------------------------------------------------------------
(* The shape of a listing response *)

\* C29: in every 200 listing response, on a first page as on a continuation
\* page, pagination.count is the number of photos of the response and that
\* number is at most pagination.limit.
C29_CountWithinLimit ==
    (pc = "done" /\ response.statusCode = 200) =>
        /\ response.pagination.count = Len(response.photos)
        /\ Len(response.photos) <= response.pagination.limit
        /\ response.pagination.limit = ParseLimit(req.limit)

\* C29 witness: a first page to which favorites were backfilled beyond the
\* limit has been answered with exactly limit photos.
C29_Witness ==
    /\ pc = "done"
    /\ response.statusCode = 200
    /\ ~Truthy(req.nextToken)
    /\ Len(loc.photos) > loc.limit
    /\ \E i \in 1..Len(response.photos) :
          response.photos[i].key \notin Range(loc.finalData.Contents)
    /\ response.pagination.count = response.pagination.limit

\* C30: no photo key appears twice in the photos of a 200 listing response,
\* also when favorites were backfilled and when the fallback listing took
\* the place of the sample.
C30_NoDuplicateKeys ==
    (pc = "done" /\ response.statusCode = 200) =>
        \A i, j \in 1..Len(response.photos) :
            response.photos[i].key = response.photos[j].key => i = j

\* C30 witness: a response built from the fallback listing, holding a
\* favorite of the page next to a backfilled favorite.
C30_Witness ==
    /\ pc = "done"
    /\ response.statusCode = 200
    /\ loc.fallbackTried
    /\ loc.finalData /= loc.data
    /\ \E i, j \in 1..Len(response.photos) :
          /\ response.photos[i].isFavorite
          /\ response.photos[i].key \in Range(loc.finalData.Contents)
          /\ response.photos[j].key \notin Range(loc.finalData.Contents)

=============================================================================
